---------------------------- MODULE Spec2Model ----------------------------
(***************************************************************************)
(* Vulnerability-validation pipeline: the rule-based triage fallback       *)
(* (src/src/agents/triage_agent.py), the assessment document store         *)
(* (src/src/utils/database.py), the dynamic tests                          *)
(* (src/src/agents/dynamic_agent.py) and the static scan                   *)
(* (src/src/agents/static_agent.py).                                       *)
(*                                                                         *)
(* The specifications of the module:                                       *)
(*   SpecTriage    TriageAgent._create_fallback_triage applied to bounded  *)
(*                 (claims, static assessments, dynamic tests) inputs;     *)
(*   SpecStore     progress of one assessment document under               *)
(*                 update_assessment_stage and complete_assessment calls;  *)
(*   SpecEvidence  claims and evidence of one assessment document under    *)
(*                 every payload of the stages that write them;            *)
(*   SpecMerge     the results of the static, dynamic and triage stages    *)
(*                 merged into the claims of a stored report;              *)
(*   SpecConcurrent  the static and the dynamic stage storing their        *)
(*                 results at the same time;                               *)
(*   SpecExtract   DynamicAgent testing one claim of any shape;            *)
(*   SpecDynamic   DynamicAgent.test_vulnerabilities on a batch of claims  *)
(*                 against a target answering in any way;                  *)
(*   SpecScan      StaticAgent._run_semgrep_scan on any run of the         *)
(*                 scanner;                                                *)
(*   SpecRun       the writes the reader and the dynamic agent issue to    *)
(*                 the store during their work;                            *)
(*   SpecTechnicalEvidence  TriageAgent._extract_technical_evidence on    *)
(*                 the results of the static and the dynamic agent;        *)
(*   SpecReasoning one reasoning call, of any reply, at the call site of   *)
(*                 the triage, the static or the dynamic agent.            *)
(***************************************************************************)
EXTENDS Naturals, Sequences, FiniteSets, TLC

VARIABLES
    \* ---- triage (TriageAgent._create_fallback_triage) ----
    pdf_vulns,        \* the reported claims, in report order
    static_results,   \* static_results['vulnerability_assessments']
    dynamic_results,  \* dynamic_results['vulnerability_tests']
    triage_result,    \* the dict returned by _create_fallback_triage, or NoResult
    \* ---- assessment document store (DatabaseManager) ----
    doc,              \* the assessment document held by the collection
    ret,              \* value returned by the last DatabaseManager call
    call,             \* the last DatabaseManager call: its name and stage argument
    applied,          \* history: stage names of the stage writes that went through
    closed,           \* history: a complete_assessment write has gone through
    writers,          \* concurrent update_assessment_stage calls: position and the document read
    \* ---- dynamic testing (DynamicAgent.test_vulnerabilities) ----
    vulnerabilities_to_test,  \* the claims handed to test_vulnerabilities
    vulnerability_results,  \* the results appended so far, or the final return
    sent,                   \* history: the HTTP requests issued, in order
    position,               \* where a run of the reader and the dynamic agent with a db_manager stands
    \* ---- reasoning calls (llm.invoke) and what their call sites return ----
    llm_response,     \* what the reasoning call gives: an exception, or the text of its reply
    analysis,         \* the value each call site returned, or NoResult
    \* ---- static scan (StaticAgent._run_semgrep_scan) ----
    semgrep_run,      \* what running the scanner gives: exit code and stdout, or an exception
    semgrep_output    \* the dict _run_semgrep_scan returns, or NoResult

triageVars  == <<pdf_vulns, static_results, dynamic_results, triage_result>>
storeVars   == <<doc, ret, call, applied, closed>>
dynamicVars == <<vulnerabilities_to_test, vulnerability_results, sent, position>>
scanVars    == <<semgrep_run, semgrep_output>>
reasoningVars == <<llm_response, analysis>>
\* the variables of the agents that neither the triage nor the store reads
agentVars   == <<dynamicVars, scanVars, reasoningVars>>
vars        == <<pdf_vulns, static_results, dynamic_results, triage_result,
                 doc, ret, call, applied, closed, writers,
                 vulnerabilities_to_test, vulnerability_results, sent, position,
                 semgrep_run, semgrep_output, llm_response, analysis>>

----------------------------------------------------------------------------
(* Bounds                                                                   *)

\* most claims in a report handed to the triage
MaxClaims == 2
\* most verdicts handed to the triage, static and dynamic lists together
MaxVerdicts == 2
\* most words in a proof of concept
MaxWords == 3
\* most findings in the output of a scan
MaxFindings == 2

----------------------------------------------------------------------------
(* Values                                                                   *)

\* dict.get(key) on a key the dict does not hold
Missing == "<missing>"
\* Python None where a dict is expected
NoResult == [none |-> TRUE]

\* a key of a claim that carries a JSON null
Null == "<null>"

\* the position when no run with a db_manager is followed
NoRun == "no run"

\* the calls whose return value the analysis variable follows:
\* StaticAgent._analyze_with_llm, DynamicAgent._analyze_vulnerability_response
\* and TriageAgent._extract_technical_evidence
FollowedCalls == {"analyze_with_llm", "analyze_vulnerability_response",
                  "extract_technical_evidence"}
NoAnalysis == [c \in FollowedCalls |-> NoResult]

\* claim ids are the ordinals the report parser assigns: "1", "2", ...
ClaimId(i) == ToString(i)
ClaimIds == {ClaimId(i) : i \in 1..MaxClaims}

\* severity strings a report may carry; "Informational" stands for every
\* string outside the four the priority map knows
Severities == {"Critical", "High", "Medium", "Low", "Informational", Missing}

\* static_status values the static correlator is asked for (static_agent.py:165)
StaticStatuses == {"Vulnerable", "Possible", "Not Vulnerable"}

\* dynamic_status values DynamicAgent._test_specific_vulnerability produces:
\* the three outcomes of an attempt, and the initial "Not Vulnerable" that
\* stays when the attempt raised (dynamic_agent.py:138, 221, 225, 228)
DynamicStatuses ==
    {"Confirmed Vulnerable", "Possibly Vulnerable", "Not Reproducible", "Not Vulnerable"}

SeqsUpTo(S, n) == UNION {[1..k -> S] : k \in 0..n}

Range(s) == {s[i] : i \in 1..Len(s)}

----------------------------------------------------------------------------
(* TriageAgent._create_fallback_triage                                      *)

\* index of the first verdict of `verdicts` for claim `vuln_id`, 0 when none:
\* the for ... if ... break loops of the fallback
FirstMatch(verdicts, vuln_id) ==
    LET hits == {i \in 1..Len(verdicts) : verdicts[i].vulnerability_id = vuln_id}
    IN  IF hits = {} THEN 0 ELSE CHOOSE i \in hits : \A j \in hits : i <= j

\* dict.get(key, default)
GetOr(value, default) == IF value = Missing THEN default ELSE value

DynamicStatusOf(vuln_id, tests) ==
    LET i == FirstMatch(tests, vuln_id)
    IN  IF i = 0 THEN "Not Vulnerable" ELSE GetOr(tests[i].dynamic_status, "Not Vulnerable")

DynamicEvidenceOf(vuln_id, tests) ==
    LET i == FirstMatch(tests, vuln_id)
    IN  IF i = 0 THEN <<"No dynamic testing performed">>
        ELSE <<"Dynamic testing: ", DynamicStatusOf(vuln_id, tests)>>

StaticStatusOf(vuln_id, assessments) ==
    LET i == FirstMatch(assessments, vuln_id)
    IN  IF i = 0 THEN "Not Vulnerable" ELSE GetOr(assessments[i].static_status, "Not Vulnerable")

StaticEvidenceOf(vuln_id, assessments) ==
    LET i == FirstMatch(assessments, vuln_id)
    IN  IF i = 0 THEN <<"No static analysis performed">>
        ELSE <<"Static analysis: ", StaticStatusOf(vuln_id, assessments)>>

FinalStatusStaticPossible(dynamic_status, static_status) ==
    IF dynamic_status = "Vulnerable" \/ static_status \in {"Vulnerable", "Possible"}
    THEN "Vulnerable" ELSE "Not Vulnerable"

FinalStatus(dynamic_status, static_status) ==
    IF dynamic_status = "Vulnerable" \/ static_status = "Vulnerable"
    THEN "Vulnerable" ELSE "Not Vulnerable"

ConfidenceStaticHigh(dynamic_status, static_status) ==
    IF dynamic_status = "Vulnerable" \/ static_status = "Vulnerable"
    THEN "High" ELSE "Low"

Confidence(dynamic_status, static_status) ==
    IF dynamic_status = "Vulnerable" \/ static_status = "Vulnerable"
    THEN (IF dynamic_status = "Vulnerable" THEN "High" ELSE "Medium")
    ELSE "Low"

calculate_priority_ignoring_status(original_severity, final_status) ==
    IF original_severity \in {"Critical", "High", "Medium", "Low"}
    THEN original_severity ELSE "Medium"

calculate_priority_default_low(original_severity, final_status) ==
    IF final_status # "Vulnerable" THEN "Low"
    ELSE IF original_severity \in {"Critical", "High", "Medium", "Low"}
         THEN original_severity ELSE "Low"

\* TriageAgent._calculate_priority: severity_map.get(original_severity, "Medium")
calculate_priority(original_severity, final_status) ==
    IF final_status # "Vulnerable" THEN "Low"
    ELSE IF original_severity \in {"Critical", "High", "Medium", "Low"}
         THEN original_severity ELSE "Medium"

\* one element of vulnerability_triage
TriageVerdict(vuln, assessments, tests) ==
    LET vuln_id        == GetOr(vuln.id, "unknown")
        dynamic_status == DynamicStatusOf(vuln_id, tests)
        static_status  == StaticStatusOf(vuln_id, assessments)
        final_status   == FinalStatus(dynamic_status, static_status)
    IN  [vulnerability_id  |-> vuln_id,
         original_severity |-> GetOr(vuln.severity, "Unknown"),
         final_status      |-> final_status,
         confidence_level  |-> Confidence(dynamic_status, static_status),
         priority          |-> calculate_priority(GetOr(vuln.severity, "Medium"), final_status),
         static_evidence   |-> StaticEvidenceOf(vuln_id, assessments),
         dynamic_evidence  |-> DynamicEvidenceOf(vuln_id, tests),
         risk_rating       |-> "Medium"]

IsVulnerable(v)  == v.final_status = "Vulnerable"
IsHighPriority(v) == v.priority \in {"Critical", "High"}

\* sum(1 for v in vulnerability_triage if ...), triage_agent.py:421, 430
VulnerableCount(s)    == Cardinality({i \in 1..Len(s) : IsVulnerable(s[i])})
HighPriorityCount(s)  == Cardinality({i \in 1..Len(s) : IsHighPriority(s[i])})

create_fallback_triage(vulns, assessments, tests) ==
    LET vulnerability_triage ==
            [i \in 1..Len(vulns) |-> TriageVerdict(vulns[i], assessments, tests)]
        vulnerable_count == VulnerableCount(vulnerability_triage)
    IN  [triage_summary |->
            [total_vulnerabilities_analyzed |-> Len(vulnerability_triage),
             confirmed_vulnerable           |-> vulnerable_count,
             possible_vulnerable            |-> 0,
             not_vulnerable                 |-> Len(vulnerability_triage) - vulnerable_count,
             high_priority_count            |-> HighPriorityCount(vulnerability_triage)],
         vulnerability_triage |-> vulnerability_triage,
         fallback_mode        |-> TRUE]

----------------------------------------------------------------------------
(* TriageAgent._extract_technical_evidence                                  *)

\* dict.get(key, default) on a dict of the model: a record holds the keys
\* that are its fields
Get(dict, key, default) == IF key \in DOMAIN dict THEN dict[key] ELSE default

\* '; '.join(list)
RECURSIVE Joined(_)
Joined(list) ==
    IF list = <<>> THEN ""
    ELSE IF Len(list) = 1 THEN list[1]
    ELSE list[1] \o "; " \o Joined(Tail(list))

\* triage_agent.py:446-453: the record the function starts from
NotFound ==
    [vulnerable_code_snippet |-> "No code evidence found",
     file_location           |-> "No location identified",
     http_request_example    |-> "No HTTP request captured",
     http_response_example   |-> "No HTTP response captured",
     exploitation_payload    |-> "No payload identified",
     proof_of_concept        |-> "No proof of concept available"]

\* triage_agent.py:460-470: the fields a matching assessment overlays
WithAssessment(technical_evidence, assessment) ==
    LET code_locations  == Get(assessment, "code_locations", <<>>)
        semgrep_matches == Get(assessment, "semgrep_matches", <<>>)
        evidence        == Get(assessment, "evidence", "")
    IN  [technical_evidence EXCEPT
            !.file_location           = IF code_locations # <<>>
                                        THEN Joined(code_locations) ELSE @,
            !.vulnerable_code_snippet = IF semgrep_matches # <<>>
                                        THEN Joined(semgrep_matches) ELSE @,
            !.proof_of_concept        = IF evidence # ""
                                        THEN "Static Analysis PoC: " \o evidence ELSE @]

\* triage_agent.py:456-471: the overlay of the static findings, made only for
\* a dict that holds the key vulnerability_analysis
WithStaticFindings(technical_evidence, vuln_id, static_analysis) ==
    IF static_analysis = NoResult \/ "vulnerability_analysis" \notin DOMAIN static_analysis
    THEN technical_evidence
    ELSE LET vuln_assessments ==
                 Get(static_analysis.vulnerability_analysis, "vulnerability_assessments", <<>>)
             m == FirstMatch(vuln_assessments, vuln_id)
         IN  IF m = 0 THEN technical_evidence
             ELSE WithAssessment(technical_evidence, vuln_assessments[m])

\* triage_agent.py:489-494: the request example, for a GET or a POST that
\* carries a payload
RequestExample(method, endpoint, payload, parameter) ==
    IF method = "GET"
    THEN method \o " " \o endpoint
            \o (IF parameter # "" THEN "?" \o parameter \o "=" \o payload ELSE "?" \o payload)
            \o " HTTP/1.1"
    ELSE method \o " " \o endpoint
            \o " HTTP/1.1\nContent-Type: application/x-www-form-urlencoded\n\n"
            \o (IF parameter # "" THEN parameter \o "=" \o payload ELSE payload)

\* the digits of len(response.content), which the model of a response does
\* not follow
ContentLength == "<response_size>"

\* triage_agent.py:481-511: the fields one test attempt overlays
WithAttempt(technical_evidence, attempt) ==
    LET req_details == attempt.request_details
        method      == Get(req_details, "method", "GET")
        endpoint    == Get(req_details, "endpoint", "/")
        payload     == Get(req_details, "payload", "")
        parameter   == Get(req_details, "parameter", "")
        evidence    == Get(attempt, "evidence", "")
    IN  [technical_evidence EXCEPT
            !.http_request_example  =
                IF method \in {"GET", "POST"} /\ endpoint # "" /\ payload # ""
                THEN RequestExample(method, endpoint, payload, parameter) ELSE @,
            !.exploitation_payload  = IF payload # "" THEN payload ELSE @,
            !.http_response_example =
                IF attempt.response # NoResult
                THEN "HTTP/1.1 " \o ToString(attempt.response.status_code)
                        \o "\nContent-Length: " \o ContentLength
                ELSE @,
            !.proof_of_concept      =
                IF evidence = "" THEN @
                ELSE IF @ = NotFound.proof_of_concept
                THEN "Dynamic Analysis PoC: " \o evidence
                ELSE @ \o "; Dynamic Analysis PoC: " \o evidence]

\* the loop over test_attempts of triage_agent.py:480
RECURSIVE WithAttempts(_, _)
WithAttempts(technical_evidence, test_attempts) ==
    IF test_attempts = <<>> THEN technical_evidence
    ELSE WithAttempts(WithAttempt(technical_evidence, Head(test_attempts)),
                      Tail(test_attempts))

\* triage_agent.py:474-512: the overlay of the dynamic findings
WithDynamicFindings(technical_evidence, vuln_id, dynamic_analysis) ==
    IF dynamic_analysis = NoResult \/ "vulnerability_tests" \notin DOMAIN dynamic_analysis
    THEN technical_evidence
    ELSE LET vuln_tests == dynamic_analysis.vulnerability_tests
             m == FirstMatch(vuln_tests, vuln_id)
         IN  IF m = 0 THEN technical_evidence
             ELSE WithAttempts(technical_evidence, Get(vuln_tests[m], "test_attempts", <<>>))

extract_technical_evidence_found_only(vuln_id, static_analysis, dynamic_analysis) ==
    LET technical_evidence ==
            WithDynamicFindings(WithStaticFindings(NotFound, vuln_id, static_analysis),
                                vuln_id, dynamic_analysis)
    IN  [key \in {k \in DOMAIN NotFound : technical_evidence[k] # NotFound[k]} |->
            technical_evidence[key]]

\* TriageAgent._extract_technical_evidence
extract_technical_evidence(vuln_id, static_analysis, dynamic_analysis) ==
    WithDynamicFindings(WithStaticFindings(NotFound, vuln_id, static_analysis),
                        vuln_id, dynamic_analysis)

\* static_agent.py:65-69: the dict StaticAgent.analyze_code returns
StaticAnalysis(assessments) ==
    [semgrep_results        |-> <<>>,
     vulnerability_analysis |-> [vulnerability_assessments |-> assessments]]

\* dynamic_agent.py:116-120: the dict DynamicAgent.test_vulnerabilities returns
DynamicAnalysis(tests) == [vulnerability_tests |-> tests, total_tested |-> Len(tests)]

\* TriageAgent._extract_static_results on a dict, and on nothing
extract_static_results(static_analysis) ==
    IF static_analysis = NoResult
    THEN [vulnerability_assessments |-> <<>>, additional_findings |-> <<>>]
    ELSE [vulnerability_assessments |->
              Get(Get(static_analysis, "vulnerability_analysis", [none |-> TRUE]),
                  "vulnerability_assessments", <<>>),
          additional_findings |-> <<>>,
          semgrep_results     |-> Get(static_analysis, "semgrep_results", <<>>)]

\* TriageAgent._extract_dynamic_results on a dict, and on nothing
extract_dynamic_results(dynamic_analysis) ==
    IF dynamic_analysis = NoResult
    THEN [vulnerability_tests |-> <<>>, general_tests |-> <<>>]
    ELSE [vulnerability_tests |-> Get(dynamic_analysis, "vulnerability_tests", <<>>),
          general_tests       |-> <<>>,
          reconnaissance      |-> <<>>]

\* triage_agent.py:399-418: a verdict of the fallback with the technical
\* evidence it carries
FallbackVerdict(vuln, static_dict, dynamic_dict) ==
    TriageVerdict(vuln, static_dict.vulnerability_assessments,
                  dynamic_dict.vulnerability_tests)
        @@ [technical_evidence |->
                extract_technical_evidence(GetOr(vuln.id, "unknown"),
                                           static_dict, dynamic_dict)]

\* TriageAgent._create_fallback_triage on the dicts it is handed
fallback_triage(vulns, static_dict, dynamic_dict) ==
    [create_fallback_triage(vulns, static_dict.vulnerability_assessments,
                            dynamic_dict.vulnerability_tests)
        EXCEPT !.vulnerability_triage =
            [i \in 1..Len(vulns) |-> FallbackVerdict(vulns[i], static_dict, dynamic_dict)]]

----------------------------------------------------------------------------
(* Inputs of the triage                                                     *)

\* reports of up to MaxClaims claims, numbered in order, any severity each
ClaimLists ==
    UNION {{[i \in 1..n |-> [id |-> ClaimId(i), severity |-> sev[i]]] :
                sev \in [1..n -> Severities]} : n \in 0..MaxClaims}

StaticAssessment == [vulnerability_id : ClaimIds, static_status : StaticStatuses]
DynamicTest      == [vulnerability_id : ClaimIds, dynamic_status : DynamicStatuses]

TriageInit ==
    /\ pdf_vulns \in ClaimLists
    /\ \E n \in 0..MaxVerdicts :
          /\ static_results \in SeqsUpTo(StaticAssessment, n)
          /\ dynamic_results \in SeqsUpTo(DynamicTest, MaxVerdicts - n)
    /\ triage_result = NoResult

\* the fallback path of _perform_triage_analysis: the reasoning call raised or
\* returned no parsable JSON
CreateFallbackTriage ==
    /\ triage_result = NoResult
    /\ triage_result' = create_fallback_triage(pdf_vulns, static_results, dynamic_results)
    /\ UNCHANGED <<pdf_vulns, static_results, dynamic_results>>
    /\ UNCHANGED <<storeVars, writers, agentVars>>

----------------------------------------------------------------------------
(* The assessment document: values                                          *)

\* database.py:212
stage_order == <<"pdf_analysis", "static_analysis", "dynamic_analysis", "triage_analysis">>
\* database.py:208
total_stages == 4

TrackedStages == Range(stage_order)

\* a stage name outside the four: DatabaseUpdateTool._run hands any name it
\* does not map to update_assessment_stage as it is (database_tools.py:56)
UntrackedStage == "report_generation"
StageNames == TrackedStages \cup {UntrackedStage}

\* a claim as the reader stores it: no evidence, no triage fields yet
FreshClaim(id) ==
    [id |-> id, static_evidence |-> Missing, dynamic_evidence |-> Missing,
     final_status |-> Missing, confidence_level |-> Missing,
     priority |-> Missing, risk_rating |-> Missing]

\* DatabaseManager.create_assessment_document
NewDocument ==
    [status                |-> "in_progress",
     current_stage         |-> "initializing",
     completion_percentage |-> 0,
     stages_completed      |-> <<>>,
     vulnerabilities       |-> <<>>,
     final_result          |-> NoResult]

\* the calls of the store, as the call variable records them
CreateCall == [op |-> "create_assessment_document", stage |-> Missing]
UpdateCall(stage) == [op |-> "update_assessment_stage", stage |-> stage]
CompleteCall == [op |-> "complete_assessment", stage |-> Missing]

StoreInit ==
    /\ doc = NewDocument
    /\ ret = TRUE
    /\ call = CreateCall
    /\ applied = {}
    /\ closed = FALSE

\* A stage result: the dict found under data['result'] or parsed from
\* data['raw_output'].  A list the dict does not hold is <<>>, which is what
\* every .get(key, []) of the store reads for it; has_keys tells {} from a
\* dict that holds some key, has_triage whether it holds 'vulnerability_triage'.
StageResult(has_keys, vulnerabilities, assessments, tests, has_triage, triage) ==
    [has_keys                  |-> has_keys,
     vulnerabilities           |-> vulnerabilities,
     vulnerability_assessments |-> assessments,
     vulnerability_tests       |-> tests,
     has_triage                |-> has_triage,
     vulnerability_triage      |-> triage]

EmptyDict == StageResult(FALSE, <<>>, <<>>, <<>>, FALSE, <<>>)

\* bool(dict)
Truthy(d) == d.has_keys

\* data['raw_output']: absent, a string that is no JSON, or the JSON text of a dict
NoRawOutput == [kind |-> "absent", parsed |-> EmptyDict]
TextOutput  == [kind |-> "text", parsed |-> EmptyDict]
JsonOutput(d) == [kind |-> "json", parsed |-> d]

\* json.loads(raw_output) guarded by isinstance(parsed_output, dict)
\* (database.py:237-245, 261-269, 316-324): the dict, or {} when the string is
\* absent ('' raises JSONDecodeError) or no JSON
ParsedRawOutput(raw_output) ==
    IF raw_output.kind = "json" THEN raw_output.parsed ELSE EmptyDict

\* the payload `data` of update_assessment_stage
Payload(vulnerabilities, tests, result, raw_output) ==
    [vulnerabilities     |-> vulnerabilities,
     vulnerability_tests |-> tests,
     result              |-> result,
     raw_output          |-> raw_output]

\* an object with attributes (a CrewOutput): obj.__dict__ split into the
\* attributes whose name starts with '_' and the others
CrewOutput(raw) == [public |-> [raw |-> raw], private |-> [_cache |-> raw]]

\* the dict crew.execute returns and app.py hands to complete_assessment: its
\* final_result is the CrewOutput of the run, or None when no crew ran
CrewResult(mode, output) == [mode |-> mode, final_result |-> output]

\* serialize_for_mongodb: an object with attributes becomes the dict of its
\* public attributes (database.py:13-19), a dict is serialized value by value
\* (database.py:31-32), and lists, strings and numbers come back as they are.
\* Of the dicts of the model only the crew result holds a value that is not
\* plain data.
RECURSIVE serialize_for_mongodb(_)
serialize_for_mongodb(obj) ==
    IF "public" \in DOMAIN obj THEN obj.public
    ELSE IF "mode" \in DOMAIN obj
    THEN [obj EXCEPT !.final_result = serialize_for_mongodb(obj.final_result)]
    ELSE obj

----------------------------------------------------------------------------
(* DatabaseManager.update_assessment_stage                                  *)

\* stage_order.index(stage) + 1, and 0 for a name outside stage_order
\* (current_index + 1 of database.py:213)
StageIndex(stage) ==
    IF stage \in TrackedStages
    THEN CHOOSE i \in 1..Len(stage_order) : stage_order[i] = stage
    ELSE 0

\* database.py:214
next_stage(stage) ==
    IF StageIndex(stage) < Len(stage_order)
    THEN stage_order[StageIndex(stage) + 1]
    ELSE "completed"

StagesAfterAlwaysAppend(stages_completed, stage) == Append(stages_completed, stage)

\* database.py:204-206
StagesAfter(stages_completed, stage) ==
    IF stage \in Range(stages_completed) THEN stages_completed
    ELSE Append(stages_completed, stage)

\* database.py:209: (len(stages_completed) / total_stages) * 100, a float that
\* is exact for every length (25.0, 50.0, ...)
CompletionPercentage(stages_completed) ==
    (Len(stages_completed) * 100) \div total_stages

\* database.py:226-247: the list the pdf_analysis branch stores; <<>> when it
\* stores none
PdfVulnerabilities(data) ==
    IF data.vulnerabilities # <<>> THEN data.vulnerabilities
    ELSE IF data.result.vulnerabilities # <<>> THEN data.result.vulnerabilities
    ELSE ParsedRawOutput(data.raw_output).vulnerabilities

\* database.py:313-324 and 258-269: data['result'], else the parsed raw_output
StageResultOf(data) ==
    IF Truthy(data.result) THEN data.result ELSE ParsedRawOutput(data.raw_output)

\* index of the last element of a list carrying the id, 0 when none does
LastMatch(list, id) ==
    LET M == {m \in 1..Len(list) : list[m].vulnerability_id = id}
    IN  IF M = {} THEN 0 ELSE CHOOSE m \in M : \A k \in M : k <= m

WithStaticEvidenceOfLastMatch(vuln, assessments) ==
    LET m == LastMatch(assessments, vuln.id)
    IN  IF m = 0 THEN vuln
        ELSE [vuln EXCEPT !.static_evidence = assessments[m].static_status]

\* database.py:330-344: the claim with the first matching assessment merged in
WithStaticEvidence(vuln, assessments) ==
    LET m == FirstMatch(assessments, vuln.id)
    IN  IF m = 0 THEN vuln
        ELSE [vuln EXCEPT !.static_evidence = assessments[m].static_status]

\* database.py:350-364
WithDynamicEvidence(vuln, tests) ==
    LET m == FirstMatch(tests, vuln.id)
    IN  IF m = 0 THEN vuln
        ELSE [vuln EXCEPT !.dynamic_evidence = tests[m].dynamic_status]

enhance_adding_unmatched(current_vulns, stage_data, stage) ==
    LET verdicts == IF stage = "static_analysis"
                    THEN StageResultOf(stage_data).vulnerability_assessments
                    ELSE StageResultOf(stage_data).vulnerability_tests
        known == {current_vulns[i].id : i \in 1..Len(current_vulns)}
        extra == SelectSeq(verdicts, LAMBDA v : v.vulnerability_id \notin known)
    IN  current_vulns \o [i \in 1..Len(extra) |-> FreshClaim(extra[i].vulnerability_id)]

\* DatabaseManager._enhance_vulnerabilities_with_evidence
enhance_vulnerabilities_with_evidence(current_vulns, stage_data, stage) ==
    LET stage_result == StageResultOf(stage_data)
    IN  [i \in 1..Len(current_vulns) |->
            IF stage = "static_analysis"
            THEN WithStaticEvidence(current_vulns[i], stage_result.vulnerability_assessments)
            ELSE WithDynamicEvidence(current_vulns[i], stage_result.vulnerability_tests)]

apply_triage_without_priority(current_vulns, triage_results) ==
    [i \in 1..Len(current_vulns) |->
        LET m == FirstMatch(triage_results, current_vulns[i].id)
        IN  IF m = 0 THEN current_vulns[i]
            ELSE [current_vulns[i] EXCEPT
                    !.final_status     = triage_results[m].final_status,
                    !.confidence_level = triage_results[m].confidence_level,
                    !.risk_rating      = triage_results[m].risk_rating]]

\* DatabaseManager._apply_triage_to_vulnerabilities
apply_triage_to_vulnerabilities(current_vulns, triage_results) ==
    [i \in 1..Len(current_vulns) |->
        LET m == FirstMatch(triage_results, current_vulns[i].id)
        IN  IF m = 0 THEN current_vulns[i]
            ELSE [current_vulns[i] EXCEPT
                    !.final_status     = triage_results[m].final_status,
                    !.confidence_level = triage_results[m].confidence_level,
                    !.priority         = triage_results[m].priority,
                    !.risk_rating      = triage_results[m].risk_rating]]

VulnerabilitiesAfterAppending(d, stage, data) ==
    IF stage = "pdf_analysis"
    THEN d.vulnerabilities \o PdfVulnerabilities(data)
    ELSE IF stage \in {"static_analysis", "dynamic_analysis"} /\ d.vulnerabilities # <<>>
    THEN enhance_vulnerabilities_with_evidence(d.vulnerabilities, data, stage)
    ELSE d.vulnerabilities

\* database.py:225-279: update_data['vulnerabilities'], or the stored list
\* when the branch sets none
VulnerabilitiesAfter(d, stage, data) ==
    IF stage = "pdf_analysis"
    THEN IF PdfVulnerabilities(data) # <<>> THEN PdfVulnerabilities(data)
         ELSE d.vulnerabilities
    ELSE IF stage \in {"static_analysis", "dynamic_analysis"}
    THEN IF d.vulnerabilities # <<>>
         THEN enhance_vulnerabilities_with_evidence(d.vulnerabilities, data, stage)
         ELSE d.vulnerabilities
    ELSE IF stage = "triage_analysis"
    THEN IF /\ Truthy(StageResultOf(data))
            /\ StageResultOf(data).has_triage
            /\ d.vulnerabilities # <<>>
         THEN apply_triage_to_vulnerabilities(d.vulnerabilities,
                                              StageResultOf(data).vulnerability_triage)
         ELSE d.vulnerabilities
    ELSE d.vulnerabilities

\* database.py:256-272
FinalResultAfter(d, stage, data) ==
    IF stage = "triage_analysis" /\ Truthy(StageResultOf(data))
    THEN StageResultOf(data)
    ELSE d.final_result

\* the document after the $set of database.py:281-284
StageUpdate(d, stage, data) ==
    LET stages_completed      == StagesAfter(d.stages_completed, stage)
        completion_percentage == CompletionPercentage(stages_completed)
        serialized_data       == serialize_for_mongodb(data)
    IN  [status                |-> IF completion_percentage = 100
                                   THEN "completed" ELSE "in_progress",
         current_stage         |-> next_stage(stage),
         completion_percentage |-> completion_percentage,
         stages_completed      |-> stages_completed,
         vulnerabilities       |-> VulnerabilitiesAfter(d, stage, serialized_data),
         final_result          |-> FinalResultAfter(d, stage, serialized_data)]

\* update_assessment_stage(document_id, stage, data) reaching the store: the
\* $set always changes last_updated, so modified_count > 0 and True is returned
UpdateAssessmentStage(stage, data) ==
    /\ doc' = StageUpdate(doc, stage, data)
    /\ ret' = TRUE
    /\ call' = UpdateCall(stage)
    /\ applied' = applied \cup {stage}
    /\ UNCHANGED closed
    /\ UNCHANGED <<triageVars, writers, agentVars>>

\* update_assessment_stage failing: no connection (database.py:187-189), or
\* find_one / update_one raising (database.py:293-295); nothing is written
UpdateAssessmentStageFails(stage) ==
    /\ ret' = FALSE
    /\ call' = UpdateCall(stage)
    /\ UNCHANGED <<doc, applied, closed>>
    /\ UNCHANGED <<triageVars, writers, agentVars>>

----------------------------------------------------------------------------
(* DatabaseManager.complete_assessment                                      *)

StagesOnCompleteKept(d) == d.stages_completed

\* database.py:512
StagesOnComplete(d) == stage_order

\* the document after the $set of database.py:515-530
Completion(d, final_result) ==
    [status                |-> "completed",
     current_stage         |-> "completed",
     completion_percentage |-> 100,
     stages_completed      |-> StagesOnComplete(d),
     vulnerabilities       |-> d.vulnerabilities,
     final_result          |-> serialize_for_mongodb(final_result)]

CompleteAssessment(final_result) ==
    /\ doc' = Completion(doc, final_result)
    /\ ret' = TRUE
    /\ call' = CompleteCall
    /\ closed' = TRUE
    /\ UNCHANGED applied
    /\ UNCHANGED <<triageVars, writers, agentVars>>

\* complete_assessment failing (database.py:495-497, 539-541)
CompleteAssessmentFails ==
    /\ ret' = FALSE
    /\ call' = CompleteCall
    /\ UNCHANGED <<doc, applied, closed>>
    /\ UNCHANGED <<triageVars, writers, agentVars>>

----------------------------------------------------------------------------
(* Inputs of the store                                                      *)

\* what the reader reports: the first n claims of the report
ReportedLists == {[i \in 1..n |-> FreshClaim(ClaimId(i))] : n \in 0..MaxClaims}

\* statuses carried by the verdicts handed to the store
StoredStaticStatuses  == {"Vulnerable", "Not Vulnerable"}
StoredDynamicStatuses == {"Confirmed Vulnerable", "Not Reproducible"}

\* assessments listed in the order of the report, a claim assessed any number
\* of times: the store looks each claim up by id (database.py:333-334), so
\* the order between assessments of different claims does not reach it
AssessmentLists ==
    {[i \in 1..Len(q) |-> [vulnerability_id |-> ClaimId(q[i].n), static_status |-> q[i].s]] :
        q \in {o \in SeqsUpTo([n : 1..MaxClaims, s : StoredStaticStatuses], MaxVerdicts) :
                    \A i \in 1..(Len(o) - 1) : o[i].n <= o[i + 1].n}}
\* DynamicAgent.test_vulnerabilities returns one result per claim it was given,
\* in the order given (dynamic_agent.py:87-90)
TestLists ==
    UNION {{[i \in 1..n |-> [vulnerability_id |-> ClaimId(i), dynamic_status |-> st[i]]] :
                st \in [1..n -> StoredDynamicStatuses]} : n \in 0..MaxClaims}

\* entries of a vulnerability_triage list: the fallback's verdict for a
\* claim of severity High with a static Vulnerable
TriageEntries ==
    {[vulnerability_id |-> id, final_status |-> "Vulnerable", confidence_level |-> "Medium",
      priority |-> "High", risk_rating |-> "Medium"] : id \in ClaimIds}
TriageLists == SeqsUpTo(TriageEntries, 1)

\* a dict holding one list under its key, and the same dict at the three
\* places the store looks: top level of data, data['result'], data['raw_output']
VulnerabilitiesDict(l) == StageResult(TRUE, l, <<>>, <<>>, FALSE, <<>>)
AssessmentsDict(l)     == StageResult(TRUE, <<>>, l, <<>>, FALSE, <<>>)
TestsDict(l)           == StageResult(TRUE, <<>>, <<>>, l, FALSE, <<>>)
TriageDict(l)          == StageResult(TRUE, <<>>, <<>>, <<>>, TRUE, l)
\* a result dict with keys but none the store reads ({"status": ...})
OtherDict              == StageResult(TRUE, <<>>, <<>>, <<>>, FALSE, <<>>)

UnderResult(d)    == Payload(<<>>, <<>>, d, NoRawOutput)
UnderRawOutput(d) == Payload(<<>>, <<>>, EmptyDict, JsonOutput(d))

\* progress writes of the agents: status fields only (reader_agent.py:62-67,
\* dynamic_agent.py:78-83, 94-100)
ProgressPayload == Payload(<<>>, <<>>, EmptyDict, NoRawOutput)

\* the reader's list at one of the three places, with a shorter list at a
\* place the store looks at later
PdfPayloads ==
    {Payload(top, <<>>, EmptyDict, TextOutput) : top \in ReportedLists}
    \cup {Payload(<<>>, <<>>, VulnerabilitiesDict(l), NoRawOutput) : l \in ReportedLists}
    \cup {Payload(<<>>, <<>>, EmptyDict, JsonOutput(VulnerabilitiesDict(l))) : l \in ReportedLists}
    \cup {Payload(l, <<>>, VulnerabilitiesDict(SubSeq(l, 1, Len(l) - 1)),
                  JsonOutput(VulnerabilitiesDict(<<>>))) : l \in ReportedLists \ {<<>>}}
    \cup {Payload(<<>>, <<>>, VulnerabilitiesDict(l),
                  JsonOutput(VulnerabilitiesDict(SubSeq(l, 1, Len(l) - 1)))) :
                l \in ReportedLists \ {<<>>}}

StaticPayloads ==
    {UnderResult(AssessmentsDict(l)) : l \in AssessmentLists}
    \cup {UnderRawOutput(AssessmentsDict(l)) : l \in {a \in AssessmentLists : Len(a) <= 1}}

\* the dynamic agent's final write carries vulnerability_tests at the top
\* level of data (dynamic_agent.py:106-113)
DynamicPayloads ==
    {UnderResult(TestsDict(l)) : l \in TestLists}
    \cup {UnderRawOutput(TestsDict(l)) : l \in {t \in TestLists : Len(t) <= 1}}
    \cup {Payload(<<>>, l, EmptyDict, NoRawOutput) : l \in TestLists}

TriagePayloads ==
    {UnderResult(TriageDict(l)) : l \in TriageLists}
    \cup {UnderRawOutput(TriageDict(l)) : l \in TriageLists}
    \cup {UnderResult(OtherDict), UnderRawOutput(EmptyDict)}

PayloadsFor(stage) ==
    {ProgressPayload} \cup
    CASE stage = "pdf_analysis"     -> PdfPayloads
      [] stage = "static_analysis"  -> StaticPayloads
      [] stage = "dynamic_analysis" -> DynamicPayloads
      [] stage = "triage_analysis"  -> TriagePayloads
      [] OTHER                      -> {}

\* one full report and one verdict for its first claim per stage: the writes
\* of a run of the pipeline
FullReport == [i \in 1..MaxClaims |-> FreshClaim(ClaimId(i))]

PipelinePayloadsFor(stage) ==
    {ProgressPayload} \cup
    CASE stage = "pdf_analysis" ->
            {Payload(FullReport, <<>>, EmptyDict, NoRawOutput)}
      [] stage = "static_analysis" ->
            {UnderResult(AssessmentsDict(
                <<[vulnerability_id |-> ClaimId(1), static_status |-> "Vulnerable"]>>))}
      [] stage = "dynamic_analysis" ->
            {Payload(<<>>,
                <<[vulnerability_id |-> ClaimId(1), dynamic_status |-> "Confirmed Vulnerable"]>>,
                EmptyDict, NoRawOutput)}
      [] stage = "triage_analysis" ->
            {UnderResult(TriageDict(<<>>))}
      [] OTHER -> {}

CrewResults ==
    {CrewResult("full", CrewOutput("report")), CrewResult("reader", [raw |-> "report"])}

\* the stages that write claims and evidence
EvidenceStages == {"pdf_analysis", "static_analysis", "dynamic_analysis"}

\* what the triage hands to the store for a claim: the fallback's verdict for
\* a confirmed claim of severity High, or for a claim without evidence
VerdictEntry(id, vulnerable) ==
    IF vulnerable
    THEN [vulnerability_id |-> id, final_status |-> "Vulnerable", confidence_level |-> "Medium",
          priority |-> "High", risk_rating |-> "Medium"]
    ELSE [vulnerability_id |-> id, final_status |-> "Not Vulnerable", confidence_level |-> "Low",
          priority |-> "Low", risk_rating |-> "Medium"]

\* triage lists in the order of the report, a claim judged any number of times
VerdictLists ==
    {[i \in 1..Len(q) |-> VerdictEntry(ClaimId(q[i].n), q[i].v)] :
        q \in {o \in SeqsUpTo([n : 1..MaxClaims, v : BOOLEAN], MaxVerdicts) :
                    \A i \in 1..(Len(o) - 1) : o[i].n <= o[i + 1].n}}

\* final results of the triage: with a per-claim list, with keys but no list,
\* and {}
FinalResults == {TriageDict(l) : l \in VerdictLists} \cup {OtherDict, EmptyDict}

\* the document once the reader has stored its report
ReportedDocument(l) == StageUpdate(NewDocument, "pdf_analysis", Payload(l, <<>>, EmptyDict, NoRawOutput))

\* a run of the pipeline after the reader: the document holds the report, and
\* the static, dynamic and triage stages hold the results they will store
MergeInit ==
    /\ \E l \in ReportedLists : doc = ReportedDocument(l)
    /\ ret = TRUE
    /\ call = UpdateCall("pdf_analysis")
    /\ applied = {"pdf_analysis"}
    /\ closed = FALSE
    /\ pdf_vulns = <<>>
    /\ static_results \in AssessmentLists
    /\ dynamic_results \in TestLists
    /\ triage_result \in FinalResults
    /\ Len(static_results) + Len(dynamic_results)
          + Len(triage_result.vulnerability_triage) <= MaxVerdicts

\* the two places of a payload the store reads a stage result from
AtResultOrRawOutput(d) == {UnderResult(d), UnderRawOutput(d)}

\* the stages of the run storing their results
StoreStaticResults ==
    \E data \in AtResultOrRawOutput(AssessmentsDict(static_results)) :
        UpdateAssessmentStage("static_analysis", data)

StoreDynamicResults ==
    \E data \in AtResultOrRawOutput(TestsDict(dynamic_results)) :
        UpdateAssessmentStage("dynamic_analysis", data)

StoreTriageResult ==
    \E data \in AtResultOrRawOutput(triage_result) :
        UpdateAssessmentStage("triage_analysis", data)

----------------------------------------------------------------------------
(* update_assessment_stage calls running concurrently                       *)

\* the stages of the two calls that run concurrently
Writers == {"static_analysis", "dynamic_analysis"}

\* a call that has not read the document yet
NotStarted == [pc |-> "start", doc |-> NoResult]

NoWriters == [w \in Writers |-> NotStarted]

\* database.py:229-279: the branch of the stage puts 'vulnerabilities' into
\* update_data
SetsVulnerabilities(d, stage, data) ==
    IF stage = "pdf_analysis" THEN PdfVulnerabilities(data) # <<>>
    ELSE IF stage \in {"static_analysis", "dynamic_analysis"} THEN d.vulnerabilities # <<>>
    ELSE IF stage = "triage_analysis"
    THEN /\ Truthy(StageResultOf(data))
         /\ StageResultOf(data).has_triage
         /\ d.vulnerabilities # <<>>
    ELSE FALSE

\* database.py:271-272: the triage branch puts 'final_result' into update_data
SetsFinalResult(stage, data) ==
    stage = "triage_analysis" /\ Truthy(StageResultOf(data))

\* update_one's $set (database.py:281-284) on the document `current`, its
\* update_data computed from the document `read` by find_one
\* (database.py:197-279): the keys of update_data are replaced, the other
\* fields of the stored document stay
SetUpdate(current, read, stage, data) ==
    LET update_data == StageUpdate(read, stage, data)
    IN  [status                |-> update_data.status,
         current_stage         |-> update_data.current_stage,
         completion_percentage |-> update_data.completion_percentage,
         stages_completed      |-> update_data.stages_completed,
         vulnerabilities       |-> IF SetsVulnerabilities(read, stage, serialize_for_mongodb(data))
                                   THEN update_data.vulnerabilities
                                   ELSE current.vulnerabilities,
         final_result          |-> IF SetsFinalResult(stage, serialize_for_mongodb(data))
                                   THEN update_data.final_result
                                   ELSE current.final_result]

\* the payload each concurrent call was given: the stage's results under
\* 'result'
WriterPayload(w) ==
    IF w = "static_analysis" THEN UnderResult(AssessmentsDict(static_results))
    ELSE UnderResult(TestsDict(dynamic_results))

\* database.py:197: doc = self.collection.find_one(...)
FindOne(w) ==
    /\ writers[w].pc = "start"
    /\ writers' = [writers EXCEPT ![w] = [pc |-> "found", doc |-> doc]]
    /\ UNCHANGED <<storeVars, triageVars, agentVars>>

\* database.py:203-292: update_data from the document read, update_one, return
UpdateOne(w) ==
    /\ writers[w].pc = "found"
    /\ doc' = SetUpdate(doc, writers[w].doc, w, WriterPayload(w))
    /\ ret' = TRUE
    /\ call' = UpdateCall(w)
    /\ applied' = applied \cup {w}
    /\ writers' = [writers EXCEPT ![w] = [pc |-> "done", doc |-> writers[w].doc]]
    /\ UNCHANGED <<closed, triageVars, agentVars>>

----------------------------------------------------------------------------
(* No reasoning call is followed                                            *)

ReasoningIdle ==
    /\ llm_response = NoResult
    /\ analysis = NoAnalysis

----------------------------------------------------------------------------
(* DynamicAgent: request extraction, execution, status                      *)

\* A proof of concept is a line of words separated by single spaces.  A word
\* is its text up to a '?', the text after the '?' when it has one, and the
\* text the injection patterns of dynamic_agent.py:189-198 draw from it when
\* it carries one of the markers of dynamic_agent.py:187.
Word(text) == [text |-> text, query |-> Missing, injected |-> Missing]

QueryWord ==
    [text     |-> "/api/fetch",
     query    |-> "url=http://internal/secret",
     injected |-> "http://internal/secret"]

\* the verbs of the regular expression of dynamic_agent.py:163
HttpVerbs == {"GET", "POST", "PUT", "DELETE"}

PocWords == {Word(v) : v \in HttpVerbs} \cup {QueryWord, Word("/login"), Word("HTTP/1.1")}

\* the characters of a word
WordText(w) == IF w.query = Missing THEN w.text ELSE w.text \o "?" \o w.query

\* str.upper() on the method names of the model
Upper(m) ==
    CASE m = "get"    -> "GET"
      [] m = "post"   -> "POST"
      [] m = "put"    -> "PUT"
      [] m = "delete" -> "DELETE"
      [] OTHER        -> m

\* re.search(r'(GET|POST|PUT|DELETE)\s+([^\s]+)', poc): the position of the
\* leftmost verb that another word follows, 0 when there is none
RequestLine(poc) ==
    LET hits == {i \in 1..(Len(poc) - 1) : poc[i].query = Missing /\ poc[i].text \in HttpVerbs}
    IN  IF hits = {} THEN 0 ELSE CHOOSE i \in hits : \A j \in hits : i <= j

\* verb in poc
ContainsVerb(poc, verb) == \E i \in 1..Len(poc) : poc[i].text = verb

\* '?' in poc
ContainsQuestionMark(poc) == \E i \in 1..Len(poc) : poc[i].query # Missing

\* poc.split('?', 1)[1].split(' ')[0]
QueryPart(poc) ==
    LET hits == {i \in 1..Len(poc) : poc[i].query # Missing}
    IN  poc[CHOOSE i \in hits : \A j \in hits : i <= j].query

\* 'payload' in poc.lower()
MentionsPayload(poc) == \E i \in 1..Len(poc) : poc[i].text \in {"payload", "Payload"}

\* any(injection in poc.lower() for injection in ["' or", "<script", "../", "http://"])
HasInjectionMarker(poc) == \E i \in 1..Len(poc) : poc[i].injected # Missing

\* dynamic_agent.py:189-198: group 1 of the first pattern that matches
InjectedPayload(poc) ==
    LET hits == {i \in 1..Len(poc) : poc[i].injected # Missing}
    IN  poc[CHOOSE i \in hits : \A j \in hits : i <= j].injected

\* dynamic_agent.py:147-163: endpoint and method after the look at
\* affected_components and at the request line of the proof of concept
EndpointAndMethod(vulnerability) ==
    LET endpoint   == GetOr(vulnerability.endpoint, GetOr(vulnerability.url, "/"))
        method     == Upper(GetOr(vulnerability.method, "GET"))
        components == vulnerability.affected_components
        poc        == vulnerability.proof_of_concept
        from_components == IF components # <<>> THEN components[1] ELSE endpoint
    IN  IF ~(endpoint = "" \/ endpoint = "/")
        THEN [endpoint |-> endpoint, method |-> method]
        ELSE IF poc # <<>> /\ from_components = "" /\ RequestLine(poc) # 0
        THEN [endpoint |-> WordText(poc[RequestLine(poc) + 1]),
              method   |-> poc[RequestLine(poc)].text]
        ELSE [endpoint |-> from_components, method |-> method]

\* dynamic_agent.py:168-176
MethodFromPoc(method, poc) ==
    IF method # "GET" THEN method
    ELSE IF ContainsVerb(poc, "POST") THEN "POST"
    ELSE IF ContainsVerb(poc, "PUT") THEN "PUT"
    ELSE IF ContainsVerb(poc, "DELETE") THEN "DELETE"
    ELSE method

\* dynamic_agent.py:178-202; no word of the model is a quoted payload, so the
\* POST branch finds no match and leaves the payload as it is
PayloadFromPoc(payload, method, poc) ==
    IF payload # "" \/ poc = <<>> THEN payload
    ELSE IF method = "GET" /\ ContainsQuestionMark(poc) THEN QueryPart(poc)
    ELSE IF method = "POST" /\ MentionsPayload(poc) THEN payload
    ELSE IF HasInjectionMarker(poc) THEN InjectedPayload(poc)
    ELSE payload

\* dynamic_agent.py:205-212: the test attempt _test_specific_vulnerability
\* builds from the claim
TestAttempt(vulnerability) ==
    LET found   == EndpointAndMethod(vulnerability)
        poc     == vulnerability.proof_of_concept
        method  == MethodFromPoc(found.method, poc)
        payload == GetOr(vulnerability.payload, GetOr(vulnerability.exploit, ""))
    IN  [method    |-> method,
         endpoint  |-> found.endpoint,
         payload   |-> PayloadFromPoc(payload, method, poc),
         parameter |-> GetOr(vulnerability.parameter, GetOr(vulnerability.param, ""))]

\* '?' in test_url, for a target_url without one
HasQuestionMark(endpoint) == \E w \in PocWords : w.query # Missing /\ endpoint = WordText(w)

\* '=' in payload
HasEquals(payload) == payload \in {"id=1", QueryWord.query}

\* dynamic_agent.py:281-285: the pairs of a form payload
FormPairs(payload) ==
    IF payload = "id=1" THEN <<[key |-> "id", value |-> "1"]>>
    ELSE <<[key |-> "url", value |-> QueryWord.injected]>>

\* dynamic_agent.py:256-294: the request _execute_reported_test issues: the
\* method, the endpoint joined to target_url, what is appended to the URL,
\* and the form data
ReportedRequest(test_attempt) ==
    LET method    == Upper(test_attempt.method)
        payload   == test_attempt.payload
        parameter == test_attempt.parameter
        separator == IF HasQuestionMark(test_attempt.endpoint) THEN "&" ELSE "?"
        pair      == <<[key |-> parameter, value |-> payload]>>
    IN  [method   |-> method,
         endpoint |-> test_attempt.endpoint,
         appended |-> IF method # "GET" THEN ""
                      ELSE IF parameter # "" /\ payload # ""
                      THEN separator \o parameter \o "=" \o payload
                      ELSE IF payload # "" THEN separator \o payload
                      ELSE "",
         data     |-> IF method = "GET" THEN <<>>
                      ELSE IF parameter # "" /\ payload # "" THEN pair
                      ELSE IF method = "POST" /\ payload # ""
                      THEN IF HasEquals(payload) THEN FormPairs(payload)
                           ELSE <<[key |-> "data", value |-> payload]>>
                      ELSE <<>>]

\* dynamic_agent.py:28: the attribute __init__ sets on the session
Seconds(n) == [seconds |-> n]
SessionTimeout == Seconds(30)

\* dynamic_agent.py:274, 287, 293: the keyword arguments of the session call
\* that issues the request
RequestKeywords(request) ==
    IF request.method = "GET" THEN {"headers"} ELSE {"headers", "data"}

\* the time limit of the request: the timeout argument of the session call,
\* and none without one (the default of Session.request; the session call
\* reads no attribute named timeout)
RequestTimeout(request) ==
    IF "timeout" \in RequestKeywords(request) THEN SessionTimeout ELSE NoResult

\* What the environment answers to a request: the session call raises, or a
\* response comes back with a status code, after response_time seconds, with
\* a body, and the reasoning call on it says vulnerable, says not vulnerable,
\* or gives no usable answer.  A body is clean, carries one of the generic
\* error words of dynamic_agent.py:326 (all of them are indicators of
\* dynamic_agent.py:411 too), or carries an indicator that is no generic
\* error word ('sql').
StatusCodes   == {200, 499, 500}
ResponseTimes == {1, 5, 6}
Bodies        == {"clean", "error", "sql"}
Judgments     == {"vulnerable", "not vulnerable", "unavailable"}

Raises == [raises |-> TRUE]

Responses ==
    [raises : {FALSE}, status_code : StatusCodes, response_time : ResponseTimes,
     body : Bodies, judgment : Judgments]

Outcomes == {Raises} \cup Responses

\* a quick 200 with a clean body that the reasoning call judges not vulnerable
PlainResponse ==
    [raises |-> FALSE, status_code |-> 200, response_time |-> 1,
     body |-> "clean", judgment |-> "not vulnerable"]

\* _analyze_vulnerability_response: the reasoning call's answer, and the
\* indicator scan of dynamic_agent.py:408-415 when it gives none
analyze_vulnerability_response(response) ==
    IF response.judgment = "unavailable" THEN response.body # "clean"
    ELSE response.judgment = "vulnerable"

PossibleOnAnyIndicator(response, success) ==
    ~success /\ (response.status_code >= 500 \/ response.response_time > 5
                    \/ response.body # "clean")

\* dynamic_agent.py:317-328: the generic checks
Possible(response, success) ==
    /\ ~success
    /\ \/ response.status_code >= 500
       \/ response.response_time > 5
       \/ response.body = "error"

\* dynamic_agent.py:313-328: the evidence text of the attempt
Evidence(response, success) ==
    IF success THEN "Vulnerability indicators detected"
    ELSE IF response.status_code >= 500 THEN "Server error response"
    ELSE IF response.response_time > 5 THEN "Unusual response time"
    ELSE IF response.body = "error" THEN "Error messages detected in response"
    ELSE ""

\* _execute_reported_test: the attempt result
execute_reported_test(test_attempt, outcome) ==
    IF outcome.raises
    THEN [success |-> FALSE, possible |-> FALSE, response |-> NoResult, evidence |-> "",
          error |-> "exception", request_details |-> test_attempt]
    ELSE LET success == analyze_vulnerability_response(outcome)
         IN  [success  |-> success,
              possible |-> Possible(outcome, success),
              response |-> [status_code   |-> outcome.status_code,
                            response_time |-> outcome.response_time],
              evidence |-> Evidence(outcome, success),
              error    |-> Missing,
              request_details |-> test_attempt]

\* dynamic_agent.py:219-229
DynamicStatus(attempt_result) ==
    IF attempt_result.success THEN "Confirmed Vulnerable"
    ELSE IF attempt_result.possible THEN "Possibly Vulnerable"
    ELSE "Not Reproducible"

DynamicConfidence(attempt_result) ==
    IF attempt_result.success THEN "High"
    ELSE IF attempt_result.possible THEN "Medium"
    ELSE "Low"

\* dynamic_agent.py:148: vulnerability.get('method', 'GET').upper() raises
\* when the claim carries the key with a null
ExtractionRaises(vulnerability) == vulnerability.method = Null

\* _test_specific_vulnerability: the test result of a claim; `observed` is
\* history, the environment's answer the result was computed from.  When the
\* extraction raises, the handler of dynamic_agent.py:231-233 leaves the
\* result as dynamic_agent.py:135-143 initialised it.
test_specific_vulnerability(vulnerability, outcome) ==
    IF ExtractionRaises(vulnerability)
    THEN [vulnerability_id |-> GetOr(vulnerability.id, "unknown"),
          dynamic_status   |-> "Not Vulnerable",
          confidence       |-> "Low",
          test_attempts    |-> <<>>,
          observed         |-> NoResult]
    ELSE LET attempt_result == execute_reported_test(TestAttempt(vulnerability), outcome)
         IN  [vulnerability_id |-> GetOr(vulnerability.id, "unknown"),
              dynamic_status   |-> DynamicStatus(attempt_result),
              confidence       |-> DynamicConfidence(attempt_result),
              test_attempts    |-> <<attempt_result>>,
              observed         |-> outcome]

ResultsStoppingAtError(results, result) ==
    IF results # <<>> /\ results[Len(results)].test_attempts[1].error # Missing
    THEN results
    ELSE Append(results, result)

\* dynamic_agent.py:89-90
ResultsAfter(results, result) == Append(results, result)

\* one turn of the loop of test_vulnerabilities (dynamic_agent.py:88-90): the
\* next claim is tested, its request goes out, its result is appended
TestSpecificVulnerability(outcome) ==
    /\ Len(vulnerability_results) < Len(vulnerabilities_to_test)
    /\ LET vulnerability == vulnerabilities_to_test[Len(vulnerability_results) + 1]
       IN  /\ sent' = IF ExtractionRaises(vulnerability) THEN sent
                       ELSE Append(sent, ReportedRequest(TestAttempt(vulnerability)))
           /\ vulnerability_results' =
                 ResultsAfter(vulnerability_results,
                              test_specific_vulnerability(vulnerability, outcome))
    /\ UNCHANGED <<vulnerabilities_to_test, position, scanVars, reasoningVars>>
    /\ UNCHANGED <<triageVars, storeVars, writers>>

\* a claim of the report as the dynamic agent reads it
ReportedClaim(id, endpoint, method, payload, parameter, components, poc) ==
    [id |-> id, endpoint |-> endpoint, url |-> Missing, method |-> method,
     payload |-> payload, exploit |-> Missing, parameter |-> parameter, param |-> Missing,
     affected_components |-> components, proof_of_concept |-> poc]

\* proofs of concept of up to MaxWords words; '' and a missing key are <<>>
ProofsOfConcept == SeqsUpTo(PocWords, MaxWords)

\* claims for the extraction: every combination of present and missing fields
ExtractionClaims ==
    {ReportedClaim(ClaimId(1), endpoint, method, payload, parameter, components, poc) :
        endpoint \in {Missing, "", "/login"}, method \in {Missing, "post", Null},
        payload \in {Missing, "id=1"}, parameter \in {Missing, "q"},
        components \in {<<>>, <<"/api/fetch">>, <<"FetchController">>},
        poc \in ProofsOfConcept}

\* claims of a batch: the reader gave each its endpoint
BatchClaim(id) == ReportedClaim(id, "/login", Missing, "id=1", Missing, <<>>, <<>>)

BatchLists == {[i \in 1..n |-> BatchClaim(ClaimId(i))] : n \in 0..MaxClaims}

\* test_vulnerabilities called with a list of claims
DynamicInit(lists) ==
    /\ vulnerabilities_to_test \in lists
    /\ vulnerability_results = <<>>
    /\ sent = <<>>
    /\ position = NoRun
    /\ ReasoningIdle
    /\ semgrep_run = NoResult
    /\ semgrep_output = NoResult

----------------------------------------------------------------------------
(* StaticAgent._run_semgrep_scan                                            *)

\* rule ids of the findings a scan reports
Findings == {"sql-injection", "ssrf", "xss"}

\* the JSON object semgrep --json prints: its findings and its own errors
SemgrepJson(results, errors) == [kind |-> "json", results |-> results, errors |-> errors]

\* stdout of the scanner: a JSON object, text that is no JSON, or nothing
Stdouts ==
    {SemgrepJson(results, errors) :
        results \in SeqsUpTo(Findings, MaxFindings), errors \in {<<>>, <<"rule error">>}}
    \cup {[kind |-> "malformed"], [kind |-> "empty"]}

\* subprocess.run: the scanner exits with a code and its stdout, the run
\* exceeds its 300 s (TimeoutExpired), or there is no scanner (FileNotFoundError)
SemgrepRuns ==
    {[kind |-> "exit", returncode |-> code, stdout |-> out] :
        code \in {0, 1, 2, 7}, out \in Stdouts}
    \cup {[kind |-> "timeout"], [kind |-> "not found"]}

\* a findings dict of the static agent
ScanOutput(results, errors) == [results |-> results, errors |-> errors]

run_semgrep_scan_zero_only(run) ==
    IF run.kind = "timeout" THEN ScanOutput(<<>>, <<"Semgrep scan timed out">>)
    ELSE IF run.kind = "not found" THEN ScanOutput(<<>>, <<"Semgrep not installed">>)
    ELSE IF run.returncode = 0
    THEN IF run.stdout.kind = "json"
         THEN ScanOutput(run.stdout.results, run.stdout.errors)
         ELSE ScanOutput(<<>>, <<"Failed to parse Semgrep output">>)
    ELSE ScanOutput(<<>>, <<"Semgrep execution failed">>)

\* StaticAgent._run_semgrep_scan (static_agent.py:75-118)
run_semgrep_scan(run) ==
    IF run.kind = "timeout" THEN ScanOutput(<<>>, <<"Semgrep scan timed out">>)
    ELSE IF run.kind = "not found" THEN ScanOutput(<<>>, <<"Semgrep not installed">>)
    ELSE IF run.returncode = 0 \/ run.returncode = 1
    THEN IF run.stdout.kind = "json"
         THEN ScanOutput(run.stdout.results, run.stdout.errors)
         ELSE ScanOutput(<<>>, <<"Failed to parse Semgrep output">>)
    ELSE ScanOutput(<<>>, <<"Semgrep execution failed">>)

\* _run_semgrep_scan called on a source tree
ScanInit ==
    /\ semgrep_run \in SemgrepRuns
    /\ semgrep_output = NoResult
    /\ vulnerabilities_to_test = <<>>
    /\ vulnerability_results = <<>>
    /\ sent = <<>>
    /\ position = NoRun
    /\ ReasoningIdle

RunSemgrepScan ==
    /\ semgrep_output = NoResult
    /\ semgrep_output' = run_semgrep_scan(semgrep_run)
    /\ UNCHANGED <<semgrep_run, dynamicVars, reasoningVars>>
    /\ UNCHANGED <<triageVars, storeVars, writers>>

\* no dynamic test and no scan has been started
AgentsIdle ==
    /\ vulnerabilities_to_test = <<>>
    /\ vulnerability_results = <<>>
    /\ sent = <<>>
    /\ position = NoRun
    /\ ReasoningIdle
    /\ semgrep_run = NoResult
    /\ semgrep_output = NoResult

----------------------------------------------------------------------------
(* The reasoning call and its three call sites                              *)

\* What llm.invoke gives: it raises; or it returns a reply whose content is
\* None, '', white space, text without a brace, text with braces that is no
\* JSON, a JSON array, or a JSON object.
Reply(kind) == [kind |-> kind]
ObjectReply(object) == [kind |-> "object", object |-> object]

FailedReplies ==
    {Reply(kind) : kind \in {"raises", "none", "empty", "blank", "prose", "malformed", "array"}}

\* an element of the vulnerability_triage list of a reply: a verdict for a
\* claim id, or a verdict without the vulnerability_id key
LlmVerdicts ==
    {[vulnerability_id |-> id, final_status |-> st] :
        id \in ClaimIds, st \in {"Vulnerable", "Not Vulnerable"}}
    \cup {[final_status |-> "Vulnerable"]}

\* JSON objects of a reply: one with none of the keys a call site reads, the
\* verdict of the response analysis, and a triage with a per-claim list
ReplyObjects ==
    {[analysis_summary |-> "text"]}
    \cup {[vulnerable |-> b, evidence |-> "text"] : b \in BOOLEAN}
    \cup {[vulnerability_triage |-> l] : l \in SeqsUpTo(LlmVerdicts, MaxVerdicts)}

Replies == FailedReplies \cup {ObjectReply(object) : object \in ReplyObjects}

\* dynamic_agent.py:375-408: what _analyze_vulnerability_response reads from
\* the reply: json.loads parses an object or an array, and result.get raises
\* on the array; every failure ends in the handler of dynamic_agent.py:410
JudgmentOf(reply) ==
    IF reply.kind # "object" THEN "unavailable"
    ELSE IF Get(reply.object, "vulnerable", FALSE) THEN "vulnerable"
    ELSE "not vulnerable"

\* StaticAgent._create_fallback_analysis
create_fallback_analysis(semgrep_results) ==
    [vulnerability_assessments |-> <<>>,
     found                     |-> Len(semgrep_results.results),
     parsing_error             |-> TRUE,
     raw_semgrep_results       |-> semgrep_results]

\* an exception that leaves the call
Raised == [raised |-> TRUE]

\* _analyze_with_llm without the handler of static_agent.py:206-208
analyze_with_llm_unguarded(reply, semgrep_results) ==
    IF reply.kind = "object" THEN reply.object
    ELSE IF reply.kind \in {"raises", "none"} THEN Raised
    ELSE create_fallback_analysis(semgrep_results)

\* static_agent.py:184-208: what _analyze_with_llm returns: the object of the
\* reply, found by the search for '{...}', or the fallback
analyze_with_llm(reply, semgrep_results) ==
    IF reply.kind = "object" THEN reply.object
    ELSE create_fallback_analysis(semgrep_results)

\* triage_agent.py:340-346: the verdicts of the reply, each verdict with a
\* vulnerability_id given its technical evidence
WithTechnicalEvidence(vulnerability_triage, static_dict, dynamic_dict) ==
    [i \in 1..Len(vulnerability_triage) |->
        IF "vulnerability_id" \in DOMAIN vulnerability_triage[i]
        THEN [technical_evidence |->
                 extract_technical_evidence(vulnerability_triage[i].vulnerability_id,
                                            static_dict, dynamic_dict)]
                @@ vulnerability_triage[i]
        ELSE vulnerability_triage[i]]

\* triage_agent.py:329-359: what _perform_triage_analysis returns
perform_triage_analysis(reply, vulns, static_dict, dynamic_dict) ==
    IF reply.kind # "object"
    THEN fallback_triage(vulns, static_dict, dynamic_dict)
    ELSE IF "vulnerability_triage" \in DOMAIN reply.object
    THEN [reply.object EXCEPT !.vulnerability_triage =
             WithTechnicalEvidence(@, static_dict, dynamic_dict)]
    ELSE reply.object

\* triage_agent.py:558: the vulnerabilities of the final report
ReportVulnerabilities(result) == Get(result, "vulnerability_triage", <<>>)

\* ---- inputs ----

\* static assessments as the static agent's reply schema has them
\* (static_agent.py:163-171), with and without findings
EvidentAssessment(id, located, matched) ==
    [vulnerability_id |-> id,
     static_status    |-> "Vulnerable",
     evidence         |-> IF matched THEN "tainted query" ELSE "",
     semgrep_matches  |-> IF matched THEN <<"sql-injection">> ELSE <<>>,
     code_locations   |-> IF located THEN <<"app.py:10", "db.py:7">> ELSE <<>>]

EvidentAssessments ==
    {EvidentAssessment(id, located, matched) :
        id \in ClaimIds, located \in BOOLEAN, matched \in BOOLEAN}

\* a response with a server error that the reasoning call judges not vulnerable
ServerError ==
    [raises |-> FALSE, status_code |-> 500, response_time |-> 1,
     body |-> "clean", judgment |-> "not vulnerable"]

\* results of the dynamic agent for a claim: requests of each shape, answered,
\* unanswered, and a claim whose extraction raised
EvidentTests ==
    UNION {
        {test_specific_vulnerability(
            ReportedClaim(id, "/login", Missing, "id=1", Missing, <<>>, <<>>), outcome) :
                outcome \in {Raises, PlainResponse, ServerError}}
        \cup
        {test_specific_vulnerability(
            ReportedClaim(id, "/login", method, payload, parameter, <<>>, <<>>), ServerError) :
                method \in {Missing, "post"}, payload \in {Missing, "id=1"},
                parameter \in {Missing, "q"}}
        \cup
        {test_specific_vulnerability(
            ReportedClaim(id, "/login", method, "id=1", Missing, <<>>, <<>>), ServerError) :
                method \in {"put", Null}}
        : id \in ClaimIds}

\* the static and the dynamic results handed to the triage
EvidenceInit ==
    /\ pdf_vulns = <<>>
    /\ \E n \in 0..MaxVerdicts :
          /\ static_results \in SeqsUpTo(EvidentAssessments, n)
          /\ dynamic_results \in SeqsUpTo(EvidentTests, MaxVerdicts - n)
    /\ triage_result = NoResult
    /\ llm_response = NoResult
    /\ analysis = NoAnalysis

\* the dicts _extract_technical_evidence can be handed for the static
\* results: none, the static agent's return, what _extract_static_results
\* makes of it
StaticShapes(assessments) ==
    {NoResult, StaticAnalysis(assessments),
     extract_static_results(StaticAnalysis(assessments))}

DynamicShapes(tests) == {NoResult, DynamicAnalysis(tests)}

\* _extract_technical_evidence called for a claim
ExtractTechnicalEvidence(vuln_id) ==
    /\ analysis = NoAnalysis
    /\ \E static_analysis \in StaticShapes(static_results) :
       \E dynamic_analysis \in DynamicShapes(dynamic_results) :
          analysis' = [analysis EXCEPT !["extract_technical_evidence"] =
                          [vuln_id          |-> vuln_id,
                           static_analysis  |-> static_analysis,
                           dynamic_analysis |-> dynamic_analysis,
                           result           |-> extract_technical_evidence(
                                                    vuln_id, static_analysis, dynamic_analysis)]]
    /\ UNCHANGED <<llm_response, triageVars, storeVars, writers, dynamicVars, scanVars>>

\* the claims of a report of severity High
HighClaims == {[i \in 1..n |-> [id |-> ClaimId(i), severity |-> "High"]] : n \in 0..MaxClaims}

\* a run of the scanner with findings and one that failed
ReasoningScans ==
    {[kind |-> "exit", returncode |-> 1,
      stdout |-> SemgrepJson(<<"sql-injection">>, <<>>)],
     [kind |-> "timeout"]}

\* the agents about to make their reasoning call: the triage on the results
\* for the first claim, the static agent on the scan, the dynamic agent on a
\* response
ReasoningInit ==
    /\ llm_response \in Replies
    /\ analysis = NoAnalysis
    /\ pdf_vulns \in HighClaims
    /\ static_results \in {<<>>, <<EvidentAssessment(ClaimId(1), TRUE, TRUE)>>}
    /\ dynamic_results \in
          {<<>>, <<test_specific_vulnerability(
                      ReportedClaim(ClaimId(1), "/login", Missing, "id=1", Missing, <<>>, <<>>),
                      ServerError)>>}
    /\ triage_result = NoResult
    /\ semgrep_run \in ReasoningScans
    /\ semgrep_output = run_semgrep_scan(semgrep_run)
    /\ vulnerabilities_to_test = <<>>
    /\ vulnerability_results = <<>>
    /\ sent = <<>>
    /\ position = NoRun

NothingAnalysed == analysis = NoAnalysis /\ triage_result = NoResult

\* triage_vulnerabilities up to the return of _perform_triage_analysis
\* (triage_agent.py:72-77)
PerformTriageAnalysis ==
    /\ NothingAnalysed
    /\ triage_result' =
          perform_triage_analysis(llm_response, pdf_vulns,
                                  extract_static_results(StaticAnalysis(static_results)),
                                  extract_dynamic_results(DynamicAnalysis(dynamic_results)))
    /\ UNCHANGED <<pdf_vulns, static_results, dynamic_results>>
    /\ UNCHANGED <<storeVars, writers, agentVars>>

\* StaticAgent._analyze_with_llm on the output of the scan
AnalyzeWithLlm ==
    /\ NothingAnalysed
    /\ analysis' = [analysis EXCEPT !["analyze_with_llm"] =
                        analyze_with_llm(llm_response, semgrep_output)]
    /\ UNCHANGED <<llm_response, triageVars, storeVars, writers, dynamicVars, scanVars>>

\* DynamicAgent._analyze_vulnerability_response on the body of a response
AnalyzeVulnerabilityResponse(body) ==
    /\ NothingAnalysed
    /\ analysis' = [analysis EXCEPT !["analyze_vulnerability_response"] =
                        [body    |-> body,
                         success |-> analyze_vulnerability_response(
                                        [judgment |-> JudgmentOf(llm_response),
                                         body     |-> body])]]
    /\ UNCHANGED <<llm_response, triageVars, storeVars, writers, dynamicVars, scanVars>>

----------------------------------------------------------------------------
(* ReaderAgent.process_report and DynamicAgent.test_vulnerabilities with a   *)
(* db_manager: the writes they issue to the store                            *)

\* the store's part of an update_assessment_stage call that goes through
Stored(stage, data) ==
    /\ doc' = StageUpdate(doc, stage, data)
    /\ ret' = TRUE
    /\ call' = UpdateCall(stage)
    /\ applied' = applied \cup {stage}
    /\ UNCHANGED closed

\* reader_agent.py:137-142: the claims of the report as the reader stores them
StoredReport(claims) == [i \in 1..Len(claims) |-> FreshClaim(claims[i].id)]

\* dynamic_agent.py:106-112: the payload of the final write, the results under
\* the key vulnerability_tests of the payload itself
FinalData(results) == Payload(<<>>, results, EmptyDict, NoRawOutput)

\* a fresh document and a report whose claims the reader has yet to parse
RunInit ==
    /\ vulnerabilities_to_test \in BatchLists
    /\ vulnerability_results = <<>>
    /\ sent = <<>>
    /\ position = "process_report"
    /\ semgrep_run = NoResult
    /\ semgrep_output = NoResult
    /\ ReasoningIdle

\* reader_agent.py:58-68: the text is extracted and the first progress write
\* goes out
ReaderExtractsText ==
    /\ position = "process_report"
    /\ Stored("pdf_analysis", ProgressPayload)
    /\ position' = "parsing"
    /\ UNCHANGED <<vulnerabilities_to_test, vulnerability_results, sent>>
    /\ UNCHANGED <<triageVars, writers, scanVars, reasoningVars>>

\* reader_agent.py:128-146: the reply is parsed and a non-empty list of claims
\* is stored
ReaderStoresReport ==
    /\ position = "parsing"
    /\ IF vulnerabilities_to_test # <<>>
       THEN Stored("pdf_analysis",
                   Payload(StoredReport(vulnerabilities_to_test), <<>>, EmptyDict, NoRawOutput))
       ELSE UNCHANGED storeVars
    /\ position' = "test_vulnerabilities"
    /\ UNCHANGED <<vulnerabilities_to_test, vulnerability_results, sent>>
    /\ UNCHANGED <<triageVars, writers, scanVars, reasoningVars>>

\* reader_agent.py:147-152: the reply holds no parsable JSON; the fallback
\* structure has no claims and nothing is stored
ReaderFallsBack ==
    /\ position = "parsing"
    /\ vulnerabilities_to_test' = <<>>
    /\ position' = "test_vulnerabilities"
    /\ UNCHANGED <<vulnerability_results, sent>>
    /\ UNCHANGED <<triageVars, storeVars, writers, scanVars, reasoningVars>>

\* dynamic_agent.py:67-84: without claims test_vulnerabilities returns at
\* once; with claims its first progress write goes out
DynamicStarts ==
    /\ position = "test_vulnerabilities"
    /\ IF vulnerabilities_to_test = <<>>
       THEN position' = "returned" /\ UNCHANGED storeVars
       ELSE position' = "testing" /\ Stored("dynamic_analysis", ProgressPayload)
    /\ UNCHANGED <<vulnerabilities_to_test, vulnerability_results, sent>>
    /\ UNCHANGED <<triageVars, writers, scanVars, reasoningVars>>

\* dynamic_agent.py:88-102: one turn of the loop, the claim is tested and the
\* progress write for it goes out
DynamicTestsClaim(outcome) ==
    /\ position = "testing"
    /\ Len(vulnerability_results) < Len(vulnerabilities_to_test)
    /\ LET vulnerability == vulnerabilities_to_test[Len(vulnerability_results) + 1]
       IN  /\ sent' = IF ExtractionRaises(vulnerability) THEN sent
                       ELSE Append(sent, ReportedRequest(TestAttempt(vulnerability)))
           /\ vulnerability_results' =
                 ResultsAfter(vulnerability_results,
                              test_specific_vulnerability(vulnerability, outcome))
    /\ Stored("dynamic_analysis", ProgressPayload)
    /\ UNCHANGED <<vulnerabilities_to_test, position>>
    /\ UNCHANGED <<triageVars, writers, scanVars, reasoningVars>>

\* dynamic_agent.py:104-120: the final write with all results, and the return
DynamicFinishes ==
    /\ position = "testing"
    /\ Len(vulnerability_results) = Len(vulnerabilities_to_test)
    /\ Stored("dynamic_analysis", FinalData(vulnerability_results))
    /\ position' = "returned"
    /\ UNCHANGED <<vulnerabilities_to_test, vulnerability_results, sent>>
    /\ UNCHANGED <<triageVars, writers, scanVars, reasoningVars>>

----------------------------------------------------------------------------
(* Specifications                                                           *)

InitTriage == TriageInit /\ StoreInit /\ writers = NoWriters /\ AgentsIdle
NextTriage == CreateFallbackTriage
SpecTriage == InitTriage /\ [][NextTriage]_vars

\* one assessment document; the triage inputs stay empty
InitStore ==
    /\ StoreInit
    /\ writers = NoWriters
    /\ AgentsIdle
    /\ pdf_vulns = <<>>
    /\ static_results = <<>>
    /\ dynamic_results = <<>>
    /\ triage_result = NoResult

\* progress of a document: every stage name, the pipeline's writes, completion
NextStore ==
    \/ \E stage \in StageNames : \E data \in PipelinePayloadsFor(stage) :
            UpdateAssessmentStage(stage, data)
    \/ \E stage \in StageNames : UpdateAssessmentStageFails(stage)
    \/ \E final_result \in CrewResults : CompleteAssessment(final_result)
    \/ CompleteAssessmentFails

SpecStore == InitStore /\ [][NextStore]_vars

\* claims and evidence of a document: every payload of the three stages that
\* write them
NextEvidence ==
    \E stage \in EvidenceStages : \E data \in PayloadsFor(stage) :
        UpdateAssessmentStage(stage, data)

SpecEvidence == InitStore /\ [][NextEvidence]_vars

\* merging of stage results into the claims of a stored report
NextMerge ==
    \/ StoreStaticResults
    \/ StoreDynamicResults
    \/ StoreTriageResult

InitMerge == MergeInit /\ writers = NoWriters /\ AgentsIdle

SpecMerge == InitMerge /\ [][NextMerge]_vars

\* the static and the dynamic stage storing their results at the same time
NextConcurrent ==
    \/ \E w \in Writers : FindOne(w)
    \/ \E w \in Writers : UpdateOne(w)

SpecConcurrent == InitMerge /\ [][NextConcurrent]_vars

\* the store and the triage do not take part in the dynamic tests
StoreIdle == StoreInit /\ writers = NoWriters /\ pdf_vulns = <<>> /\ static_results = <<>>
                /\ dynamic_results = <<>> /\ triage_result = NoResult

\* one claim of any shape, tested against a target that answers plainly or
\* not at all
InitExtract == StoreIdle /\ DynamicInit({<<claim>> : claim \in ExtractionClaims})
NextExtract == \E outcome \in {PlainResponse, Raises} : TestSpecificVulnerability(outcome)
SpecExtract == InitExtract /\ [][NextExtract]_vars

\* a batch of claims, tested against a target that answers in any way
InitDynamic == StoreIdle /\ DynamicInit(BatchLists)
NextDynamic == \E outcome \in Outcomes : TestSpecificVulnerability(outcome)
SpecDynamic == InitDynamic /\ [][NextDynamic]_vars

\* one run of the scanner
InitScan == StoreIdle /\ ScanInit
NextScan == RunSemgrepScan
SpecScan == InitScan /\ [][NextScan]_vars

\* the reader and then the dynamic agent working on a fresh document
InitRun ==
    /\ StoreInit
    /\ writers = NoWriters
    /\ pdf_vulns = <<>>
    /\ static_results = <<>>
    /\ dynamic_results = <<>>
    /\ triage_result = NoResult
    /\ RunInit
NextRun ==
    \/ ReaderExtractsText
    \/ ReaderStoresReport
    \/ ReaderFallsBack
    \/ DynamicStarts
    \/ \E outcome \in Outcomes : DynamicTestsClaim(outcome)
    \/ DynamicFinishes
SpecRun == InitRun /\ [][NextRun]_vars

\* _extract_technical_evidence on the results of the static and the dynamic
\* agent, for the first claim
InitTechnicalEvidence ==
    /\ StoreInit
    /\ writers = NoWriters
    /\ EvidenceInit
    /\ vulnerabilities_to_test = <<>>
    /\ vulnerability_results = <<>>
    /\ sent = <<>>
    /\ position = NoRun
    /\ semgrep_run = NoResult
    /\ semgrep_output = NoResult
NextTechnicalEvidence == ExtractTechnicalEvidence(ClaimId(1))
SpecTechnicalEvidence == InitTechnicalEvidence /\ [][NextTechnicalEvidence]_vars

\* one reasoning call at one of its three call sites
InitReasoning == StoreInit /\ writers = NoWriters /\ ReasoningInit
NextReasoning ==
    \/ PerformTriageAnalysis
    \/ AnalyzeWithLlm
    \/ \E body \in Bodies : AnalyzeVulnerabilityResponse(body)
SpecReasoning == InitReasoning /\ [][NextReasoning]_vars

Init == InitStore
Next == NextStore
Spec == SpecStore

----------------------------------------------------------------------------
(* Properties of the triage fallback (SpecTriage)                           *)

TriageDone == triage_result # NoResult

Verdict(i) == triage_result.vulnerability_triage[i]

\* the dynamic_status of the first dynamic test carrying claim i's id, and
\* Missing when no test carries it
ReportedDynamic(i) ==
    LET m == FirstMatch(dynamic_results, pdf_vulns[i].id)
    IN  IF m = 0 THEN Missing ELSE dynamic_results[m].dynamic_status

\* the static_status of the first static assessment carrying claim i's id
ReportedStatic(i) ==
    LET m == FirstMatch(static_results, pdf_vulns[i].id)
    IN  IF m = 0 THEN Missing ELSE static_results[m].static_status

\* C1: in the fallback triage every claim whose matching dynamic verdict is
\* "Confirmed Vulnerable" gets final_status Vulnerable and confidence_level
\* High, whatever its static verdict is.
C1_ConfirmedDynamicIsVulnerableHigh ==
    TriageDone =>
        \A i \in 1..Len(pdf_vulns) :
            ReportedDynamic(i) = "Confirmed Vulnerable" =>
                /\ Verdict(i).final_status = "Vulnerable"
                /\ Verdict(i).confidence_level = "High"

\* C2: monotonicity: a claim gets final_status Vulnerable only if its dynamic
\* status is "Confirmed Vulnerable" or its static status is "Vulnerable".
C2_VulnerableOnlyWithEvidence ==
    TriageDone =>
        \A i \in 1..Len(pdf_vulns) :
            Verdict(i).final_status = "Vulnerable" =>
                \/ ReportedDynamic(i) = "Confirmed Vulnerable"
                \/ ReportedStatic(i) = "Vulnerable"

C2_Witness ==
    /\ TriageDone
    /\ \E i \in 1..Len(pdf_vulns) : Verdict(i).final_status = "Vulnerable"
    /\ \E i \in 1..Len(pdf_vulns) :
          /\ ReportedStatic(i) = "Possible"
          /\ Verdict(i).final_status = "Not Vulnerable"

\* C3: without a dynamic confirmation, a static "Vulnerable" gives
\* Vulnerable/Medium, and anything else gives Not Vulnerable/Low.
C3_StaticOnlyIsMediumElseLow ==
    TriageDone =>
        \A i \in 1..Len(pdf_vulns) :
            ReportedDynamic(i) # "Confirmed Vulnerable" =>
                IF ReportedStatic(i) = "Vulnerable"
                THEN /\ Verdict(i).final_status = "Vulnerable"
                     /\ Verdict(i).confidence_level = "Medium"
                ELSE /\ Verdict(i).final_status = "Not Vulnerable"
                     /\ Verdict(i).confidence_level = "Low"

C3_Witness ==
    /\ TriageDone
    /\ \E i \in 1..Len(pdf_vulns) :
          /\ ReportedDynamic(i) = "Possibly Vulnerable"
          /\ ReportedStatic(i) = "Vulnerable"
    /\ \E i \in 1..Len(pdf_vulns) :
          /\ ReportedDynamic(i) = Missing
          /\ ReportedStatic(i) = Missing

\* C4: a claim whose id is in neither the static nor the dynamic list gets
\* final_status Not Vulnerable and priority Low, for every severity.
C4_AbsentClaimIsNotVulnerableLow ==
    TriageDone =>
        \A i \in 1..Len(pdf_vulns) :
            (ReportedDynamic(i) = Missing /\ ReportedStatic(i) = Missing) =>
                /\ Verdict(i).final_status = "Not Vulnerable"
                /\ Verdict(i).priority = "Low"

C4_Witness ==
    /\ TriageDone
    /\ static_results # <<>>
    /\ dynamic_results # <<>>
    /\ \E i \in 1..Len(pdf_vulns) :
          /\ ReportedDynamic(i) = Missing
          /\ ReportedStatic(i) = Missing
          /\ pdf_vulns[i].severity = "Critical"

\* C5: priority is Low whenever final_status is not Vulnerable; for a
\* Vulnerable claim it is the reported severity when that is Critical, High,
\* Medium or Low, and Medium for any other or missing severity.
C5_PriorityDerivation ==
    TriageDone =>
        \A i \in 1..Len(pdf_vulns) :
            IF Verdict(i).final_status # "Vulnerable"
            THEN Verdict(i).priority = "Low"
            ELSE \/ /\ pdf_vulns[i].severity \in {"Critical", "High", "Medium", "Low"}
                    /\ Verdict(i).priority = pdf_vulns[i].severity
                 \/ /\ pdf_vulns[i].severity \notin {"Critical", "High", "Medium", "Low"}
                    /\ Verdict(i).priority = "Medium"

C5_Witness ==
    /\ TriageDone
    /\ \E i \in 1..Len(pdf_vulns) :
          /\ Verdict(i).final_status = "Vulnerable"
          /\ pdf_vulns[i].severity = "Informational"
    /\ \E i \in 1..Len(pdf_vulns) :
          /\ Verdict(i).final_status = "Not Vulnerable"
          /\ pdf_vulns[i].severity = "Critical"

----------------------------------------------------------------------------
(* Properties of the document's progress (SpecStore)                        *)

\* the call was update_assessment_stage
IsUpdate(c) == c.op = "update_assessment_stage"

\* only update_assessment_stage calls with tracked stage names have written
\* to the document so far
OnlyTrackedApplied == ~closed /\ applied \subseteq TrackedStages

C7_CountsDistinctStages ==
    OnlyTrackedApplied =>
        /\ doc.completion_percentage = 25 * Cardinality(applied)
        /\ Range(doc.stages_completed) = applied
        /\ Len(doc.stages_completed) = Cardinality(applied)

C7_ReapplyIsIdempotent ==
    (IsUpdate(call') /\ call'.stage \in Range(doc.stages_completed)) =>
        /\ doc'.stages_completed = doc.stages_completed
        /\ doc'.completion_percentage = doc.completion_percentage

\* C7: after update_assessment_stage has been applied with k distinct tracked
\* stage names, in any order and with any repetitions, completion_percentage
\* is 25*k and stages_completed holds each applied stage exactly once; and
\* re-applying a recorded stage leaves stages_completed and
\* completion_percentage as they were.
C7_CompletionPercentage ==
    /\ []C7_CountsDistinctStages
    /\ [][C7_ReapplyIsIdempotent]_vars

\* the last stage recorded is applied first, then an earlier one, then the
\* first again: two distinct stages, three writes
C7_Witness ==
    /\ OnlyTrackedApplied
    /\ doc.stages_completed = <<"triage_analysis", "pdf_analysis">>
    /\ call = UpdateCall("triage_analysis")
    /\ ret = TRUE
    /\ doc.completion_percentage = 50

----------------------------------------------------------------------------
(* Properties of the document's claims and evidence (SpecEvidence)          *)

\* the sequence of claim ids of a vulnerabilities list
ClaimIdsOf(vulns) == [i \in 1..Len(vulns) |-> vulns[i].id]

\* the vulnerability list a payload carries: at top level, else under
\* result, else inside a raw_output string that is JSON; <<>> when none
CarriedList(data) ==
    IF data.vulnerabilities # <<>> THEN data.vulnerabilities
    ELSE IF data.result.vulnerabilities # <<>> THEN data.result.vulnerabilities
    ELSE IF data.raw_output.kind = "json" THEN data.raw_output.parsed.vulnerabilities
    ELSE <<>>

\* C9: update_assessment_stage with stage pdf_analysis and a payload carrying
\* a non-empty vulnerability list L sets the document's vulnerabilities to
\* exactly L, whatever the document held before; with a payload carrying no
\* list the document's vulnerabilities are left unchanged.
C9_PdfReplacesWholesale ==
    [][call' = UpdateCall("pdf_analysis") =>
          \A data \in PayloadsFor("pdf_analysis") :
              UpdateAssessmentStage("pdf_analysis", data) =>
                  IF CarriedList(data) # <<>>
                  THEN doc'.vulnerabilities = CarriedList(data)
                  ELSE doc'.vulnerabilities = doc.vulnerabilities]_vars

\* a second pdf_analysis write, after static and dynamic writes, left one
\* claim without evidence
C9_Witness ==
    /\ call = UpdateCall("pdf_analysis")
    /\ doc.stages_completed = <<"pdf_analysis", "static_analysis", "dynamic_analysis">>
    /\ doc.vulnerabilities = <<FreshClaim(ClaimId(1))>>

\* C10: update_assessment_stage with stage static_analysis or
\* dynamic_analysis never creates or removes claims: the sequence of claim
\* ids is the same before and after under every payload, and a document
\* without vulnerabilities stays without while the call returns True.
C10_EvidenceKeepsClaims ==
    [][call' \in {UpdateCall("static_analysis"), UpdateCall("dynamic_analysis")} =>
          /\ ClaimIdsOf(doc'.vulnerabilities) = ClaimIdsOf(doc.vulnerabilities)
          /\ doc.vulnerabilities = <<>> =>
                (doc'.vulnerabilities = <<>> /\ ret' = TRUE)]_vars

\* static_analysis was written first, on a document without claims, and
\* again after the report arrived: the second claim alone got static evidence
C10_Witness ==
    /\ call = UpdateCall("static_analysis")
    /\ ret = TRUE
    /\ doc.stages_completed = <<"static_analysis", "pdf_analysis">>
    /\ Len(doc.vulnerabilities) = MaxClaims
    /\ doc.vulnerabilities[1].static_evidence = Missing
    /\ doc.vulnerabilities[MaxClaims].static_evidence = "Vulnerable"

----------------------------------------------------------------------------
(* Properties of the merging of stage results (SpecMerge)                   *)

\* the verdicts of a list that carry the id of a claim, by position
MatchesOf(list, id) == {m \in 1..Len(list) : list[m].vulnerability_id = id}

\* m is the position of the first verdict of the list carrying the id
IsFirstMatch(list, id, m) ==
    m \in MatchesOf(list, id) /\ \A k \in MatchesOf(list, id) : m <= k

C11_StaticMergedById ==
    call' = UpdateCall("static_analysis") =>
        /\ ret' = TRUE
        /\ Len(doc'.vulnerabilities) = Len(doc.vulnerabilities)
        /\ \A i \in 1..Len(doc.vulnerabilities) :
              LET vuln == doc.vulnerabilities[i]
              IN  IF MatchesOf(static_results, vuln.id) = {}
                  THEN doc'.vulnerabilities[i] = vuln
                  ELSE \E m \in 1..Len(static_results) :
                          /\ IsFirstMatch(static_results, vuln.id, m)
                          /\ doc'.vulnerabilities[i] =
                                [vuln EXCEPT !.static_evidence = static_results[m].static_status]

C11_DynamicMergedById ==
    call' = UpdateCall("dynamic_analysis") =>
        /\ ret' = TRUE
        /\ Len(doc'.vulnerabilities) = Len(doc.vulnerabilities)
        /\ \A i \in 1..Len(doc.vulnerabilities) :
              LET vuln == doc.vulnerabilities[i]
              IN  IF MatchesOf(dynamic_results, vuln.id) = {}
                  THEN doc'.vulnerabilities[i] = vuln
                  ELSE \E m \in 1..Len(dynamic_results) :
                          /\ IsFirstMatch(dynamic_results, vuln.id, m)
                          /\ doc'.vulnerabilities[i] =
                                [vuln EXCEPT !.dynamic_evidence = dynamic_results[m].dynamic_status]

\* C11: on a static_analysis (resp. dynamic_analysis) update a claim of the
\* document receives static_evidence (resp. dynamic_evidence) from the first
\* verdict of the payload whose vulnerability_id equals its id and from no
\* other, every claim without a matching verdict is left as it was, and the
\* update returns True.
C11_EvidenceMergedById ==
    [][C11_StaticMergedById /\ C11_DynamicMergedById]_vars

\* two assessments of claim 1 that disagree, none of claim 2: claim 1 holds
\* the first one's status, claim 2 no static evidence
C11_Witness ==
    /\ call = UpdateCall("static_analysis")
    /\ ret = TRUE
    /\ Len(static_results) = 2
    /\ static_results[1] = [vulnerability_id |-> ClaimId(1), static_status |-> "Not Vulnerable"]
    /\ static_results[2] = [vulnerability_id |-> ClaimId(1), static_status |-> "Vulnerable"]
    /\ Len(doc.vulnerabilities) = 2
    /\ doc.vulnerabilities[1].static_evidence = "Not Vulnerable"
    /\ doc.vulnerabilities[2].static_evidence = Missing

\* C12: update_assessment_stage with stage triage_analysis and a non-empty
\* final result R stores R unchanged in final_result; when R holds a
\* per-claim triage list, every claim of the document whose id matches an
\* entry gets the final_status, confidence_level, priority and risk_rating
\* of the first such entry, and the claims without a matching entry keep
\* their fields.
C12_TriageStoredAndApplied ==
    [][(call' = UpdateCall("triage_analysis") /\ Truthy(triage_result)) =>
          /\ doc'.final_result = triage_result
          /\ Len(doc'.vulnerabilities) = Len(doc.vulnerabilities)
          /\ \A i \in 1..Len(doc.vulnerabilities) :
                LET vuln    == doc.vulnerabilities[i]
                    entries == triage_result.vulnerability_triage
                IN  IF MatchesOf(entries, vuln.id) = {}
                    THEN doc'.vulnerabilities[i] = vuln
                    ELSE \E m \in 1..Len(entries) :
                            /\ IsFirstMatch(entries, vuln.id, m)
                            /\ doc'.vulnerabilities[i] =
                                  [vuln EXCEPT !.final_status     = entries[m].final_status,
                                               !.confidence_level = entries[m].confidence_level,
                                               !.priority         = entries[m].priority,
                                               !.risk_rating      = entries[m].risk_rating]]_vars

\* a triage result with one entry, for the second claim of a report of two
C12_Witness ==
    /\ call = UpdateCall("triage_analysis")
    /\ ret = TRUE
    /\ triage_result = TriageDict(<<VerdictEntry(ClaimId(2), TRUE)>>)
    /\ doc.final_result = triage_result
    /\ Len(doc.vulnerabilities) = 2
    /\ doc.vulnerabilities[1].final_status = Missing
    /\ doc.vulnerabilities[2].final_status = "Vulnerable"
    /\ doc.vulnerabilities[2].priority = "High"
    /\ doc.vulnerabilities[2].risk_rating = "Medium"

----------------------------------------------------------------------------
(* Properties of concurrent stage writes (SpecConcurrent)                   *)

BothWritten == \A w \in Writers : writers[w].pc = "done"

\* the evidence the first matching verdict of a list gives a claim
EvidenceFrom(list, id, field) ==
    IF MatchesOf(list, id) = {} THEN Missing
    ELSE LET m == CHOOSE k \in 1..Len(list) : IsFirstMatch(list, id, k)
         IN  list[m][field]

\* C13: no lost updates: once the concurrent static_analysis and
\* dynamic_analysis calls have both returned, in every interleaving the
\* document has both stages in stages_completed, a completion_percentage
\* counting both, and every claim carries the evidence of both calls.
C13_NoLostUpdate ==
    BothWritten =>
        /\ Writers \subseteq Range(doc.stages_completed)
        /\ doc.completion_percentage = 25 * Len(doc.stages_completed)
        /\ Len(doc.stages_completed) = 3
        /\ \A i \in 1..Len(doc.vulnerabilities) :
              LET vuln == doc.vulnerabilities[i]
              IN  /\ vuln.static_evidence =
                        EvidenceFrom(static_results, vuln.id, "static_status")
                  /\ vuln.dynamic_evidence =
                        EvidenceFrom(dynamic_results, vuln.id, "dynamic_status")

----------------------------------------------------------------------------
(* Properties of the document's stage (SpecStore)                           *)

\* the state machine of current_stage, in its order
StageMachine ==
    <<"initializing", "pdf_analysis", "static_analysis", "dynamic_analysis",
      "triage_analysis", "completed">>

PositionOf(stage_name) == CHOOSE i \in 1..Len(StageMachine) : StageMachine[i] = stage_name

\* C14: current_stage follows initializing, pdf_analysis, static_analysis,
\* dynamic_analysis, triage_analysis, completed in forward order only: no
\* update_assessment_stage or complete_assessment call moves it to an
\* earlier position.
C14_StageNeverMovesBack ==
    [][PositionOf(doc'.current_stage) >= PositionOf(doc.current_stage)]_vars

----------------------------------------------------------------------------
(* Properties of the request extraction (SpecExtract)                       *)

\* the claim under test, its result and the request extracted from it
TestedClaim == vulnerabilities_to_test[1]
Tested      == vulnerability_results # <<>>
Extracted   == vulnerability_results[1].test_attempts[1].request_details

\* the claim has none of the method, endpoint, payload fields
NoRequestFields(claim) ==
    claim.method = Missing /\ claim.endpoint = Missing /\ claim.payload = Missing

\* position i of the proof of concept reads "GET <path>?<query>"
IsGetLine(poc, i) ==
    /\ i < Len(poc)
    /\ poc[i] = Word("GET")
    /\ poc[i + 1].query # Missing

\* C15: for every claim without method, endpoint and payload fields whose
\* proof of concept contains "GET <path>?<query> ...", the extraction yields
\* method GET, endpoint <path> without the query string and payload <query>,
\* with or without affected_components.
C15_GetLineExtracted ==
    (Tested /\ NoRequestFields(TestedClaim)) =>
        \A i \in 1..Len(TestedClaim.proof_of_concept) :
            IsGetLine(TestedClaim.proof_of_concept, i) =>
                /\ Extracted.method = "GET"
                /\ Extracted.endpoint = TestedClaim.proof_of_concept[i + 1].text
                /\ Extracted.payload = TestedClaim.proof_of_concept[i + 1].query

\* C16: for every claim without a method field whose proof of concept
\* contains "POST", the extracted method is POST, whatever other verb comes
\* before it and wherever the endpoint was taken from.
C16_PostInPocGivesPost ==
    (Tested /\ TestedClaim.method = Missing
            /\ ContainsVerb(TestedClaim.proof_of_concept, "POST")) =>
        Extracted.method = "POST"

\* C17: a claim with no endpoint, url, method, payload, parameter,
\* affected_components and proof_of_concept yields a request whose method,
\* endpoint, payload and parameter are all empty strings, and no HTTP request
\* is issued for it.
C17_UnextractableIsUntested ==
    (/\ Tested
     /\ NoRequestFields(TestedClaim)
     /\ TestedClaim.url = Missing
     /\ TestedClaim.parameter = Missing
     /\ TestedClaim.affected_components = <<>>
     /\ TestedClaim.proof_of_concept = <<>>) =>
        /\ Extracted = [method |-> "", endpoint |-> "", payload |-> "", parameter |-> ""]
        /\ sent = <<>>

----------------------------------------------------------------------------
(* Properties of the dynamic tests (SpecDynamic)                            *)

\* the answer gives a positive: the reasoning call says vulnerable, or it
\* gives no answer and the body carries an indicator
IsPositive(answer) ==
    \/ answer.judgment = "vulnerable"
    \/ answer.judgment = "unavailable" /\ answer.body \in {"error", "sql"}

\* the secondary signal of an answer, the first that applies, "" when none
SecondarySignal(answer) ==
    IF answer.status_code >= 500 THEN "Server error response"
    ELSE IF answer.response_time > 5 THEN "Unusual response time"
    ELSE IF answer.body = "error" THEN "Error messages detected in response"
    ELSE ""

\* C18: for an attempt that got a response: a positive from the reasoning
\* judgment or, when there is no judgment, from the indicator scan gives
\* Confirmed Vulnerable with confidence High; otherwise a secondary signal
\* (status code >= 500, else elapsed time > 5 s, else generic error words in
\* the body, the first that applies being the one reported) gives Possibly
\* Vulnerable with confidence Medium; otherwise Not Reproducible with
\* confidence Low.
C18_StatusMapping ==
    \A i \in 1..Len(vulnerability_results) :
        LET result == vulnerability_results[i]
            answer == result.observed
        IN  ~answer.raises =>
                IF IsPositive(answer)
                THEN /\ result.dynamic_status = "Confirmed Vulnerable"
                     /\ result.confidence = "High"
                ELSE IF SecondarySignal(answer) # ""
                THEN /\ result.dynamic_status = "Possibly Vulnerable"
                     /\ result.confidence = "Medium"
                     /\ result.test_attempts[1].evidence = SecondarySignal(answer)
                ELSE /\ result.dynamic_status = "Not Reproducible"
                     /\ result.confidence = "Low"

\* no judgment and an indicator in the body of a 500: confirmed; a slow 499
\* judged not vulnerable whose body carries an indicator that is no error
\* word: possible, for its response time
C18_Witness ==
    /\ Len(vulnerability_results) = 2
    /\ vulnerability_results[1].observed =
          [raises |-> FALSE, status_code |-> 500, response_time |-> 1,
           body |-> "sql", judgment |-> "unavailable"]
    /\ vulnerability_results[1].dynamic_status = "Confirmed Vulnerable"
    /\ vulnerability_results[2].observed =
          [raises |-> FALSE, status_code |-> 499, response_time |-> 6,
           body |-> "sql", judgment |-> "not vulnerable"]
    /\ vulnerability_results[2].dynamic_status = "Possibly Vulnerable"
    /\ vulnerability_results[2].test_attempts[1].evidence = "Unusual response time"

----------------------------------------------------------------------------
(* Properties of the static scan (SpecScan)                                 *)

ScanDone == semgrep_output # NoResult

\* the scanner exited with code 0 or 1 and printed a JSON object
ScanSucceeded ==
    /\ semgrep_run.kind = "exit"
    /\ semgrep_run.returncode \in {0, 1}
    /\ semgrep_run.stdout.kind = "json"

\* C20: _run_semgrep_scan returns the parsed findings when the scanner exits
\* with code 0 or 1 and its output is JSON; for any other exit code,
\* malformed output, a timeout or a missing scanner it returns an empty
\* findings list with an error note; it returns in every case.
C20_ScanDegrades ==
    /\ ~ScanDone => ENABLED RunSemgrepScan
    /\ ScanDone =>
          IF ScanSucceeded
          THEN /\ semgrep_output.results = semgrep_run.stdout.results
               /\ semgrep_output.errors = semgrep_run.stdout.errors
          ELSE /\ semgrep_output.results = <<>>
               /\ semgrep_output.errors # <<>>

\* exit code 2 with nothing on stdout
C20_Witness ==
    /\ ScanDone
    /\ semgrep_run = [kind |-> "exit", returncode |-> 2, stdout |-> [kind |-> "empty"]]
    /\ semgrep_output.results = <<>>
    /\ semgrep_output.errors # <<>>

----------------------------------------------------------------------------
(* Properties of the document's progress under any stage name (SpecStore)   *)

ProgressInRange ==
    /\ Range(doc.stages_completed) \subseteq TrackedStages
    /\ doc.completion_percentage \in {0, 25, 50, 75, 100}

CompletedStaysCompleted ==
    doc.status = "completed" => doc'.status = "completed"

\* C29: under any sequence of update_assessment_stage calls with any stage
\* name (tracked or not) and complete_assessment calls, stages_completed holds
\* only tracked stages, completion_percentage is one of 0, 25, 50, 75, 100,
\* and a document whose status is completed never returns to in_progress.
C29_ProgressStaysInRange ==
    /\ []ProgressInRange
    /\ [][CompletedStaysCompleted]_vars

----------------------------------------------------------------------------
(* Properties of the request body (SpecExtract)                             *)

\* the body the POST branch builds from a parameter and a payload
PostRuleBody(parameter, payload) ==
    IF parameter # "" /\ payload # "" THEN <<[key |-> parameter, value |-> payload]>>
    ELSE IF payload = "" THEN <<>>
    ELSE IF HasEquals(payload) THEN FormPairs(payload)
    ELSE <<[key |-> "data", value |-> payload]>>

\* C25: a request with a verb other than GET and POST carries the body the
\* POST rule gives for its parameter and payload (the single field
\* parameter=payload, else the parsed key=value pairs, else the single field
\* data), so a non-empty payload is never dropped from the request.
C25_OtherVerbsFollowPostRule ==
    \A i \in 1..Len(sent) :
        LET test_attempt == TestAttempt(vulnerabilities_to_test[i])
        IN  sent[i].method \notin {"GET", "POST"} =>
                /\ sent[i].data = PostRuleBody(test_attempt.parameter, test_attempt.payload)
                /\ test_attempt.payload # "" => sent[i].data # <<>>

----------------------------------------------------------------------------
(* Properties of the time limit of the requests (SpecDynamic)               *)

\* C26: every HTTP request _execute_reported_test issues carries the
\* 30-second timeout, so that an unresponsive target ends in an attempt-level
\* error and the batch finishes.
C26_RequestsAreBounded ==
    \A i \in 1..Len(sent) : RequestTimeout(sent[i]) = Seconds(30)

----------------------------------------------------------------------------
(* Properties of the status of a test result (SpecExtract)                  *)

ReportedDynamicStatuses ==
    {"Confirmed Vulnerable", "Possibly Vulnerable", "Not Reproducible"}

\* C24: every result of _test_specific_vulnerability has dynamic_status in
\* {Confirmed Vulnerable, Possibly Vulnerable, Not Reproducible}, on the path
\* where the extraction raises before any attempt is recorded too.
C24_StatusIsOneOfThree ==
    \A i \in 1..Len(vulnerability_results) :
        vulnerability_results[i].dynamic_status \in ReportedDynamicStatuses

----------------------------------------------------------------------------
(* Properties of a run of the reader and the dynamic agent (SpecRun)        *)

\* C27: once test_vulnerabilities has run with a db_manager and its final
\* dynamic_analysis write is applied, every claim of the document that was
\* tested carries dynamic_evidence whose status is the dynamic_status computed
\* for it.
C27_DynamicResultsReachDocument ==
    (position = "returned" /\ call = UpdateCall("dynamic_analysis")) =>
        \A i \in 1..Len(vulnerability_results) : \A j \in 1..Len(doc.vulnerabilities) :
            doc.vulnerabilities[j].id = vulnerability_results[i].vulnerability_id =>
                doc.vulnerabilities[j].dynamic_evidence =
                    vulnerability_results[i].dynamic_status

StagesCompleted == Range(doc.stages_completed)

\* C30: pdf_analysis is in stages_completed only once the report's claims
\* have been parsed and stored, and dynamic_analysis only once every claim of
\* the batch has been tested: the progress writes at the start of and during
\* a stage do not mark it completed.
C30_StageCompletedAfterWork ==
    /\ "pdf_analysis" \in StagesCompleted =>
          position \notin {"process_report", "parsing"}
    /\ "dynamic_analysis" \in StagesCompleted =>
          Len(vulnerability_results) = Len(vulnerabilities_to_test)

----------------------------------------------------------------------------
(* C21                                                                      *)

EvidenceKeys ==
    {"file_location", "vulnerable_code_snippet", "http_request_example",
     "http_response_example", "exploitation_payload", "proof_of_concept"}

\* the assessments a dict of static results holds, wherever it holds them
AssessmentsIn(static_analysis) ==
    IF static_analysis = NoResult THEN <<>>
    ELSE IF "vulnerability_analysis" \in DOMAIN static_analysis
    THEN static_analysis.vulnerability_analysis.vulnerability_assessments
    ELSE static_analysis.vulnerability_assessments

HasStaticEvidence(vuln_id, static_analysis) ==
    \E i \in 1..Len(AssessmentsIn(static_analysis)) :
        AssessmentsIn(static_analysis)[i].vulnerability_id = vuln_id

HasDynamicEvidence(vuln_id, dynamic_analysis) ==
    /\ dynamic_analysis # NoResult
    /\ \E i \in 1..Len(dynamic_analysis.vulnerability_tests) :
          dynamic_analysis.vulnerability_tests[i].vulnerability_id = vuln_id

TechnicalEvidenceExtracted == analysis["extract_technical_evidence"] # NoResult

\* C21: the technical-evidence record of a verdict always has the six keys
\* file_location, vulnerable_code_snippet, http_request_example,
\* http_response_example, exploitation_payload and proof_of_concept, each a
\* string; the fields of an analysis that has nothing for the claim hold
\* their "not found" sentinel.
C21_EvidenceRecordIsComplete ==
    TechnicalEvidenceExtracted =>
        LET extraction == analysis["extract_technical_evidence"]
            technical_evidence == extraction.result
            static  == HasStaticEvidence(extraction.vuln_id, extraction.static_analysis)
            dynamic == HasDynamicEvidence(extraction.vuln_id, extraction.dynamic_analysis)
        IN  /\ DOMAIN technical_evidence = EvidenceKeys
            /\ \A key \in EvidenceKeys : technical_evidence[key] \in STRING
            /\ ~static =>
                  \A key \in {"file_location", "vulnerable_code_snippet"} :
                      technical_evidence[key] = NotFound[key]
            /\ ~dynamic =>
                  \A key \in {"http_request_example", "http_response_example",
                              "exploitation_payload"} :
                      technical_evidence[key] = NotFound[key]
            /\ ~static /\ ~dynamic => technical_evidence = NotFound

\* the static agent located the claim, no dynamic result is about it: the
\* locations are in the record beside the sentinels of the request fields
C21_Witness ==
    /\ TechnicalEvidenceExtracted
    /\ LET extraction == analysis["extract_technical_evidence"]
       IN  /\ extraction.static_analysis # NoResult
           /\ "vulnerability_analysis" \in DOMAIN extraction.static_analysis
           /\ ~HasDynamicEvidence(extraction.vuln_id, extraction.dynamic_analysis)
           /\ extraction.result.file_location = "app.py:10; db.py:7"
           /\ extraction.result.http_request_example = NotFound.http_request_example

----------------------------------------------------------------------------
(* C22, C23, C28                                                            *)

ReasoningFailed == llm_response \in FailedReplies

StaticCorrelated == analysis["analyze_with_llm"] # NoResult
ResponseAnalysed == analysis["analyze_vulnerability_response"] # NoResult
Triaged          == triage_result # NoResult

\* C22: when the reasoning call raises or returns empty, non-JSON or
\* malformed-JSON text, each call site returns its fallback and raises
\* nothing: the response analysis the result of the indicator scan, the
\* static correlation empty vulnerability_assessments with parsing_error,
\* the triage the rule-based fallback with fallback_mode.
C22_ReasoningFailuresRecovered ==
    ReasoningFailed =>
        /\ ResponseAnalysed =>
              LET returned == analysis["analyze_vulnerability_response"]
              IN  /\ returned.success \in BOOLEAN
                  /\ returned.success <=> returned.body # "clean"
        /\ StaticCorrelated =>
              LET returned == analysis["analyze_with_llm"]
              IN  /\ returned # Raised
                  /\ returned.vulnerability_assessments = <<>>
                  /\ returned.parsing_error
        /\ Triaged =>
              /\ triage_result # Raised
              /\ "fallback_mode" \in DOMAIN triage_result
              /\ triage_result.fallback_mode
              /\ Len(triage_result.vulnerability_triage) = Len(pdf_vulns)

\* the reasoning call raised and the static correlation returned its fallback
C22_Witness ==
    /\ llm_response = Reply("raises")
    /\ StaticCorrelated
    /\ analysis["analyze_with_llm"].parsing_error
    /\ analysis["analyze_with_llm"].found = 1

VerdictsFor(id) ==
    {j \in 1..Len(ReportVulnerabilities(triage_result)) :
        Get(ReportVulnerabilities(triage_result)[j], "vulnerability_id", Missing) = id}

\* C23: the vulnerabilities of the report hold exactly one verdict for each
\* reported claim, whether the reply of the reasoning call was parsed or the
\* fallback was taken.
C23_OneVerdictPerClaim ==
    Triaged =>
        /\ Len(ReportVulnerabilities(triage_result)) = Len(pdf_vulns)
        /\ \A i \in 1..Len(pdf_vulns) : Cardinality(VerdictsFor(pdf_vulns[i].id)) = 1

\* the static assessment of a claim with code locations, matched findings
\* and evidence, if the static results have one
FullAssessmentsOf(id) ==
    {k \in 1..Len(static_results) :
        /\ static_results[k].vulnerability_id = id
        /\ static_results[k].code_locations # <<>>
        /\ static_results[k].semgrep_matches # <<>>
        /\ static_results[k].evidence # ""}

\* C28: in both triage paths, the technical evidence of the verdict of a
\* claim whose static assessment has code locations, matched findings and
\* evidence has the locations joined by "; " as file_location, the findings
\* joined by "; " as vulnerable_code_snippet, and a proof_of_concept that
\* starts with "Static Analysis PoC: " and the evidence.
C28_StaticEvidenceReachesVerdict ==
    Triaged =>
        \A j \in 1..Len(ReportVulnerabilities(triage_result)) :
            LET verdict == ReportVulnerabilities(triage_result)[j]
            IN  "technical_evidence" \in DOMAIN verdict =>
                    \A k \in FullAssessmentsOf(verdict.vulnerability_id) :
                        /\ verdict.technical_evidence.file_location =
                              Joined(static_results[k].code_locations)
                        /\ verdict.technical_evidence.vulnerable_code_snippet =
                              Joined(static_results[k].semgrep_matches)
                        /\ \E rest \in {"", "; Dynamic Analysis PoC: Server error response"} :
                              verdict.technical_evidence.proof_of_concept =
                                  "Static Analysis PoC: " \o static_results[k].evidence \o rest

====
